---- MODULE Spec2Model ----
(***************************************************************************)
(* A model of the Abyssinia-Lang pipeline: the lexer (lexer.py), the       *)
(* parser's token cursor (parser/base.py, error.py) and the tree-walking   *)
(* interpreter (interpreter/evaluator.py, interpreter/executor.py).        *)
(*                                                                         *)
(* A text is a sequence of characters.  A native-script character is       *)
(* written as the name of its Unicode syllable in capitals ("LA" is        *)
(* U+1208, the letter of the FOR keyword), an ASCII character as itself.   *)
(* Identifier names inside the interpreter are plain strings.              *)
(***************************************************************************)
EXTENDS Integers, Sequences, FiniteSets, TLC

VARIABLES
  prog,       \* the top-level AST handed to run()
  pc,         \* index of the next top-level statement of run()
  memory,     \* env.memory: the active variable mapping
  functions,  \* env.functions
  modules,    \* env.modules, in insertion order
  classes,    \* env.classes
  heap,       \* the list objects; a list value is a reference into heap
  stdin,      \* the lines input() has still to read
  stdout,     \* what print() and the prompts of input() wrote
  err,        \* the exception that ended the run, or NoErr
  report,     \* what the top-level driver printed for err
  xlog,       \* call trace of the last top-level statement
  src,        \* the text handed to tokenize()
  code,       \* lexer: the text being scanned
  i,          \* lexer: cursor
  line,       \* lexer: current line
  col,        \* lexer: current column
  tokens,     \* lexer output / parser input
  lexerr,     \* LexerError raised by tokenize, or NoErr
  phase,      \* front end: "idle", "source", "scan", "lexed", "lexfail",
              \* "parse", "parsefail"
  pos,        \* parser: index of the current token (0-based)
  pline,      \* parser.line
  pcol,       \* parser.col
  perr        \* ParseError raised by eat, or NoErr

interpVars == <<prog, pc, memory, functions, modules, classes, heap, stdin,
                stdout, err, report, xlog>>
frontVars == <<src, code, i, line, col, tokens, lexerr, phase, pos, pline, pcol, perr>>
vars == <<prog, pc, memory, functions, modules, classes, heap, stdin, stdout,
          err, report, xlog, src, code, i, line, col, tokens, lexerr, phase, pos,
          pline, pcol, perr>>

(***************************************************************************)
(* Bounds of the model.                                                    *)
(***************************************************************************)
MaxWhile == 4
MaxSrcLen == 3
MaxSuffix == 2

(***************************************************************************)
(* Runtime values.  Each kind of value keeps its payload in a field of its *)
(* own.  A string is a sequence of characters.                             *)
(***************************************************************************)
IntV(n) == [t |-> "int", n |-> n]
StrV(s) == [t |-> "str", s |-> s]
BoolV(b) == [t |-> "bool", b |-> b]
NoneV == [t |-> "none"]
FloatV(a, b) == [t |-> "float", num |-> a, den |-> b]
ListV(r) == [t |-> "list", ref |-> r]
FnV(f) == [t |-> "fn", def |-> f]
BuiltinV(ns, name) == [t |-> "builtin", ns |-> ns, name |-> name]
NamespaceV(name) == [t |-> "namespace", name |-> name]

(***************************************************************************)
(* Errors.  kind is the exception class; tag, name, a and b are the parts  *)
(* the message is formatted from.                                          *)
(***************************************************************************)
NoErr == [kind |-> "none"]
Err(kind, tag, name, a, b) ==
  [kind |-> kind, tag |-> tag, name |-> name, a |-> a, b |-> b]
InterpreterError(tag, name, a, b) == Err("InterpreterError", tag, name, a, b)
HostError(kind, tag) == Err(kind, tag, "", 0, 0)

(***************************************************************************)
(* AST nodes, with the field names the interpreter reads.  A field name    *)
(* holds one type of value throughout: the value of a Number is num, that  *)
(* of a String is str, and the callee of a FunctionCall is name (a plain   *)
(* name) or access (a ModuleAccess node), the other one being empty.       *)
(***************************************************************************)
NoneNode == [kind |-> "None"]
Number(v) == [kind |-> "Number", num |-> v]
String(s) == [kind |-> "String", str |-> s]
Variable(name) == [kind |-> "Variable", name |-> name]
ListLit(values) == [kind |-> "ListAssign", name |-> "", values |-> values]
ListAssign(name, values) == [kind |-> "ListAssign", name |-> name, values |-> values]
ListAccessPos(name, index) == [kind |-> "ListAccessPos", name |-> name, index |-> index]
BinOp(left, op, right) == [kind |-> "BinOp", left |-> left, op |-> op, right |-> right]
Input(prompt) == [kind |-> "Input", prompt |-> prompt]
ModuleAccess(m, member) == [kind |-> "ModuleAccess", module_name |-> m, member_name |-> member]
FunctionCall(name, access, args) ==
  [kind |-> "FunctionCall", name |-> name, access |-> access, args |-> args]
Call(f, args) == FunctionCall(f, NoneNode, args)
MemberCall(m, member, args) == FunctionCall("", ModuleAccess(m, member), args)
ClassCall(name, fns) == [kind |-> "ClassCall", name |-> name, functionName |-> fns]
Assign(name, value) == [kind |-> "Assign", name |-> name, value |-> value]
AssignListElement(la, value) == [kind |-> "AssignListElement", list_access |-> la, value |-> value]
PrintStmt(expr) == [kind |-> "Print", expr |-> expr]
Block(stmts) == [kind |-> "Block", stmts |-> stmts]
Conditionals(c, body, ec, ebody, elsebody) ==
  [kind |-> "Conditionals", condition |-> c, body |-> body,
   elseif_condition |-> ec, elseif_body |-> ebody, else_body |-> elsebody]
WhileLoop(c, body) == [kind |-> "WhileLoop", condition |-> c, body |-> body]
ForLoop(var, start, end, body) ==
  [kind |-> "ForLoop", var |-> var, start |-> start, end |-> end, body |-> body]
Functions(name, params, body) ==
  [kind |-> "Functions", name |-> name, params |-> params, body |-> body]
ClassDef(name, body) == [kind |-> "ClassDef", name |-> name, body |-> body]
ImportStatement(path, alias) == [kind |-> "ImportStatement", path |-> path, alias |-> alias]

(***************************************************************************)
(* Mappings (Python dicts).                                                *)
(***************************************************************************)
Put(m, k, v) == [x \in (DOMAIN m) \cup {k} |-> IF x = k THEN v ELSE m[x]]
MapEq(m1, m2) == DOMAIN m1 = DOMAIN m2 /\ \A k \in DOMAIN m1 : m1[k] = m2[k]
RECURSIVE ZipOver(_, _, _)
ZipOver(m, keys, vals) ==
  IF Len(keys) = 0 \/ Len(vals) = 0 THEN m
  ELSE ZipOver(Put(m, Head(keys), Head(vals)), Tail(keys), Tail(vals))

(***************************************************************************)
(* env.modules keeps insertion order: the statement-position call scans    *)
(* env.modules.values() in that order.                                     *)
(***************************************************************************)
ModHas(mods, name) == \E k \in 1..Len(mods) : mods[k].name = name
ModGet(mods, name) == mods[CHOOSE k \in 1..Len(mods) : mods[k].name = name].content
ModPut(mods, name, content) ==
  IF ModHas(mods, name)
  THEN [k \in 1..Len(mods) |->
          IF mods[k].name = name THEN [name |-> name, content |-> content] ELSE mods[k]]
  ELSE Append(mods, [name |-> name, content |-> content])

(***************************************************************************)
(* The interpreter state threaded through evaluate and execute: the env    *)
(* module's globals, the list objects, the standard streams, the pending   *)
(* exception and the call trace.                                           *)
(***************************************************************************)
R(st, val) == [st |-> st, val |-> val]
Failed(st) == st.err.kind /= "none"
Raise(st, e) == R([st EXCEPT !.err = e], NoneV)

(***************************************************************************)
(* Host (Python) semantics of values.                                      *)
(***************************************************************************)
IsNum(v) == v.t \in {"int", "bool"}
NumOf(v) == IF v.t = "int" THEN v.n ELSE IF v.b THEN 1 ELSE 0
Truthy(v, st) ==
  CASE v.t = "int" -> v.n /= 0
    [] v.t = "bool" -> v.b
    [] v.t = "str" -> Len(v.s) > 0
    [] v.t = "none" -> FALSE
    [] v.t = "float" -> v.num /= 0
    [] v.t = "list" -> Len(st.heap[v.ref]) > 0
    [] OTHER -> TRUE
RECURSIVE PyEq(_, _, _)
PyEq(l, r, st) ==
  CASE IsNum(l) /\ IsNum(r) -> NumOf(l) = NumOf(r)
    [] l.t = "float" /\ IsNum(r) -> l.num = NumOf(r) * l.den
    [] IsNum(l) /\ r.t = "float" -> r.num = NumOf(l) * r.den
    [] l.t = "float" /\ r.t = "float" -> l.num * r.den = r.num * l.den
    [] l.t = "str" /\ r.t = "str" -> Len(l.s) = Len(r.s) /\ \A k \in 1..Len(l.s) : l.s[k] = r.s[k]
    [] l.t = "none" /\ r.t = "none" -> TRUE
    [] l.t = "list" /\ r.t = "list" ->
         \/ l.ref = r.ref
         \/ /\ Len(st.heap[l.ref]) = Len(st.heap[r.ref])
            /\ \A k \in 1..Len(st.heap[l.ref]) :
                 PyEq(st.heap[l.ref][k], st.heap[r.ref][k], st)
    [] l.t = "fn" /\ r.t = "fn" -> l.def = r.def
    [] l.t = "builtin" /\ r.t = "builtin" -> l.ns = r.ns /\ l.name = r.name
    [] l.t = "namespace" /\ r.t = "namespace" -> l.name = r.name
    [] OTHER -> FALSE
RECURSIVE Repeat(_, _)
Repeat(s, n) == IF n <= 0 THEN <<>> ELSE s \o Repeat(s, n - 1)
NewList(st, items) ==
  R([st EXCEPT !.heap = Append(@, items)], ListV(Len(st.heap) + 1))

Enter(st, op, node) ==
  [st EXCEPT !.xlog = Append(@, [op |-> op, node |-> node, d |-> st.depth]),
             !.depth = @ + 1]
Note(st, ev) == [st EXCEPT !.xlog = Append(@, ev)]
LeaveValue(r, node) ==
  IF Failed(r.st) THEN r
  ELSE R([r.st EXCEPT !.depth = @ - 1,
                      !.xlog = Append(@, [op |-> "value", node |-> node, val |-> r.val,
                                          truth |-> Truthy(r.val, r.st),
                                          d |-> r.st.depth - 1])],
         r.val)
LeaveStmt(st, node) ==
  IF Failed(st) THEN st
  ELSE [st EXCEPT !.depth = @ - 1,
                  !.xlog = Append(@, [op |-> "done", node |-> node, d |-> st.depth - 1])]

(***************************************************************************)
(* The built-in registry of runtime/builtins.py.                           *)
(***************************************************************************)
BuiltinNamespaces == {"HISAB", "TSIHUF", "ZIRZIR", "FAYL", "INTERNET"}
BuiltinTopLevel == {"WEDETSIHUF", "WEDEQUTIR", "WEDENETIBQUTIR"}
BuiltinMembers(ns) ==
  CASE ns = "HISAB" -> {"abs", "round", "sqrt", "pow", "max", "min", "randint",
                        "sin", "cos", "tan", "asin", "acos", "atan"}
    [] ns = "TSIHUF" -> {"RIZMET", "TEKA", "KIFEL"}
    [] ns = "ZIRZIR" -> {"CHEMIR"}
    [] ns = "FAYL" -> {"KIFET", "ANBIB", "TSAF", "ZIGA"}
    [] ns = "INTERNET" -> {"AGIGN"}
    [] OTHER -> {}
BuiltinNames == BuiltinNamespaces \cup BuiltinTopLevel
builtins(name) ==
  IF name \in BuiltinNamespaces THEN NamespaceV(name) ELSE BuiltinV("", name)
\* BuiltinFunction.arity; -1 stands for None (any number of arguments)
BuiltinArity(f) ==
  CASE f.name \in {"max", "min"} -> -1
    [] f.name \in {"TEKA"} -> 3
    [] f.name \in {"round", "pow", "randint", "KIFEL", "CHEMIR", "KIFET", "TSAF", "AGIGN"} -> 2
    [] OTHER -> 1


(***************************************************************************)
(* evaluate, Variable: the current mapping, then the built-in registry.    *)
(***************************************************************************)
\* a lookup that asks the built-in registry before the variable mapping
ResolveVariable_BuiltinsFirst(name, st) ==
  IF name \in BuiltinNames THEN R(st, builtins(name))
  ELSE IF name \in DOMAIN st.memory THEN R(st, st.memory[name])
  ELSE Raise(st, InterpreterError("undefined_identifier", name, 0, 0))
ResolveVariable(name, st) ==
  IF name \in DOMAIN st.memory THEN R(st, st.memory[name])
  ELSE IF name \in BuiltinNames THEN R(st, builtins(name))
  ELSE Raise(st, InterpreterError("undefined_identifier", name, 0, 0))

(***************************************************************************)
(* evaluate, BinOp: the operator applied to the two operand values.        *)
(***************************************************************************)
Arith(op, l, r, st) ==
  CASE IsNum(l) /\ IsNum(r) /\ op = "+" -> R(st, IntV(NumOf(l) + NumOf(r)))
    [] IsNum(l) /\ IsNum(r) /\ op = "-" -> R(st, IntV(NumOf(l) - NumOf(r)))
    [] IsNum(l) /\ IsNum(r) /\ op = "*" -> R(st, IntV(NumOf(l) * NumOf(r)))
    [] IsNum(l) /\ IsNum(r) /\ op = "/" ->
         IF NumOf(r) = 0 THEN Raise(st, HostError("ZeroDivisionError", "division by zero"))
         ELSE R(st, FloatV(NumOf(l), NumOf(r)))
    [] l.t = "str" /\ r.t = "str" /\ op = "+" -> R(st, StrV(l.s \o r.s))
    [] l.t = "str" /\ IsNum(r) /\ op = "*" -> R(st, StrV(Repeat(l.s, NumOf(r))))
    [] IsNum(l) /\ r.t = "str" /\ op = "*" -> R(st, StrV(Repeat(r.s, NumOf(l))))
    [] l.t = "list" /\ r.t = "list" /\ op = "+" ->
         NewList(st, st.heap[l.ref] \o st.heap[r.ref])
    [] l.t = "list" /\ IsNum(r) /\ op = "*" -> NewList(st, Repeat(st.heap[l.ref], NumOf(r)))
    [] IsNum(l) /\ r.t = "list" /\ op = "*" -> NewList(st, Repeat(st.heap[r.ref], NumOf(l)))
    [] l.t = "float" \/ r.t = "float" -> Raise(st, HostError("Unmodelled", "float arithmetic"))
    [] OTHER -> Raise(st, HostError("TypeError", "unsupported operand type(s)"))
Compare(op, l, r, st) ==
  CASE IsNum(l) /\ IsNum(r) ->
         R(st, BoolV(CASE op = ">" -> NumOf(l) > NumOf(r)
                       [] op = "<" -> NumOf(l) < NumOf(r)
                       [] op = ">=" -> NumOf(l) >= NumOf(r)
                       [] OTHER -> NumOf(l) <= NumOf(r)))
    [] (l.t = r.t /\ l.t \in {"str", "list"}) \/ l.t = "float" \/ r.t = "float" ->
         Raise(st, HostError("Unmodelled", "ordering of strings, lists, floats"))
    [] OTHER -> Raise(st, HostError("TypeError", "ordering not supported"))
ApplyBinOp(op, l, r, st) ==
  CASE op \in {"+", "-", "*", "/"} -> Arith(op, l, r, st)
    [] op \in {">", "<", ">=", "<="} -> Compare(op, l, r, st)
    [] op = "==" -> R(st, BoolV(PyEq(l, r, st)))
    [] op = "!=" -> R(st, BoolV(~PyEq(l, r, st)))
    [] op = "&&" -> R(st, IF Truthy(l, st) THEN r ELSE l)
    [] op = "||" -> R(st, IF Truthy(l, st) THEN l ELSE r)
    [] OTHER -> Raise(st, InterpreterError("unknown_operator", op, 0, 0))

(***************************************************************************)
(* Host subscripting lst[index] and lst[index] = value.                    *)
(***************************************************************************)
IndexOf(n, len) == IF n < 0 THEN n + len + 1 ELSE n + 1
Subscript(lst, index, st) ==
  CASE lst.t = "list" /\ IsNum(index) ->
         IF IndexOf(NumOf(index), Len(st.heap[lst.ref])) \in 1..Len(st.heap[lst.ref])
         THEN R(st, st.heap[lst.ref][IndexOf(NumOf(index), Len(st.heap[lst.ref]))])
         ELSE Raise(st, HostError("IndexError", "list index out of range"))
    [] lst.t = "str" /\ IsNum(index) ->
         IF IndexOf(NumOf(index), Len(lst.s)) \in 1..Len(lst.s)
         THEN R(st, StrV(<<lst.s[IndexOf(NumOf(index), Len(lst.s))]>>))
         ELSE Raise(st, HostError("IndexError", "string index out of range"))
    [] lst.t = "namespace" -> Raise(st, HostError("KeyError", "key"))
    [] OTHER -> Raise(st, HostError("TypeError", "not subscriptable or bad index"))
StoreItem(lst, index, value, st) ==
  CASE lst.t = "list" /\ IsNum(index) ->
         IF IndexOf(NumOf(index), Len(st.heap[lst.ref])) \in 1..Len(st.heap[lst.ref])
         THEN [st EXCEPT !.heap[lst.ref][IndexOf(NumOf(index), Len(st.heap[lst.ref]))] = value]
         ELSE [st EXCEPT !.err = HostError("IndexError", "list assignment index out of range")]
    [] lst.t = "namespace" -> [st EXCEPT !.err = HostError("Unmodelled", "write into the registry")]
    [] OTHER -> [st EXCEPT !.err = HostError("TypeError", "does not support item assignment")]

(***************************************************************************)
(* input(prompt): the prompt goes to stdout, one line is read from stdin.  *)
(***************************************************************************)
ReadInput(prompt, st) ==
  LET shown == IF Len(prompt) > 0
               THEN [st EXCEPT !.stdout = Append(@, [w |-> "prompt", s |-> prompt])]
               ELSE st
  IN IF Len(shown.stdin) = 0 THEN Raise(shown, HostError("EOFError", "EOF when reading a line"))
     ELSE R([shown EXCEPT !.stdin = Tail(@)], StrV(Head(shown.stdin)))
RECURSIVE ShownIn(_, _, _)
\* a list met again while it is being shown is written "[...]"
ShownIn(v, st, shown) ==
  IF v.t = "list"
  THEN IF v.ref \in shown THEN [t |-> "ellipsis"]
       ELSE [t |-> "listval",
             items |-> [k \in 1..Len(st.heap[v.ref]) |->
                          ShownIn(st.heap[v.ref][k], st, shown \cup {v.ref})]]
  ELSE v
Shown(v, st) == ShownIn(v, st, {})
WritePrint(v, st) == [st EXCEPT !.stdout = Append(@, [w |-> "print", v |-> Shown(v, st)])]

(***************************************************************************)
(* BuiltinFunction.call and the library functions behind it.  Only the     *)
(* functions listed here are modelled; a call of another one ends the run  *)
(* with the marker "Unmodelled".                                           *)
(***************************************************************************)
Digits == <<"0", "1", "2", "3", "4", "5", "6", "7", "8", "9">>
IsDigit(c) == \E k \in 1..Len(Digits) : Digits[k] = c
DigitOf(c) == (CHOOSE k \in 1..Len(Digits) : Digits[k] = c) - 1
RECURSIVE ParseInt(_, _)
ParseInt(s, acc) == IF Len(s) = 0 THEN acc ELSE ParseInt(Tail(s), acc * 10 + DigitOf(Head(s)))
MaxOf(S) == CHOOSE m \in S : \A x \in S : m >= x
MinOf(S) == CHOOSE m \in S : \A x \in S : m <= x
BuiltinFn(f, args, st) ==
  CASE f.name = "abs" ->
         IF IsNum(args[1]) THEN R(st, IntV(IF NumOf(args[1]) < 0 THEN -NumOf(args[1]) ELSE NumOf(args[1])))
         ELSE Raise(st, HostError("TypeError", "bad operand type for abs()"))
    [] f.name \in {"max", "min"} ->
         IF Len(args) = 0 THEN Raise(st, HostError("ValueError", "arg is an empty sequence"))
         ELSE IF \A k \in 1..Len(args) : args[k] = args[1] THEN R(st, args[1])
         ELSE IF \A k \in 1..Len(args) : IsNum(args[k])
         THEN R(st, IntV(IF f.name = "max" THEN MaxOf({NumOf(args[k]) : k \in 1..Len(args)})
                         ELSE MinOf({NumOf(args[k]) : k \in 1..Len(args)})))
         ELSE IF \E j, k \in 1..Len(args) : IsNum(args[j]) /\ args[k].t \in {"str", "list", "none"}
         THEN Raise(st, HostError("TypeError", "'>' not supported between instances"))
         ELSE IF \E j, k \in 1..Len(args) : args[j].t = "str" /\ args[k].t \in {"list", "none"}
         THEN Raise(st, HostError("TypeError", "'>' not supported between instances"))
         ELSE Raise(st, HostError("Unmodelled", "max/min of other values"))
    [] f.name = "RIZMET" ->
         CASE args[1].t = "str" -> R(st, IntV(Len(args[1].s)))
           [] args[1].t = "list" -> R(st, IntV(Len(st.heap[args[1].ref])))
           [] OTHER -> Raise(st, HostError("TypeError", "object has no len()"))
    [] f.name = "CHEMIR" ->
         CASE args[2].t = "list" ->
                R([st EXCEPT !.heap[args[2].ref] = Append(@, args[1])], args[2])
           [] args[2].t = "none" -> NewList(st, <<args[1]>>)
           [] OTHER -> Raise(st, HostError("AttributeError", "no attribute append"))
    [] f.name = "WEDEQUTIR" ->
         CASE IsNum(args[1]) -> R(st, IntV(NumOf(args[1])))
           [] args[1].t = "str" ->
                IF Len(args[1].s) > 0 /\ \A k \in 1..Len(args[1].s) : IsDigit(args[1].s[k])
                THEN R(st, IntV(ParseInt(args[1].s, 0)))
                ELSE Raise(st, HostError("ValueError", "invalid literal for int()"))
           [] OTHER -> Raise(st, HostError("TypeError", "int() argument"))
    [] OTHER -> Raise(st, HostError("Unmodelled", "library function"))
\* The call trace of BuiltinFunction.call: "call" on entry, "fn" when the
\* wrapped host function is invoked, "returned" when call() returns.
CallEvent(f, args, st) == [op |-> "call", callee |-> f, nargs |-> Len(args), d |-> st.depth]
FnEvent(f, st) == [op |-> "fn", callee |-> f, d |-> st.depth]
ReturnEvent(f, v, st) == [op |-> "returned", callee |-> f, val |-> v, d |-> st.depth]
WrongArity(f, n) == BuiltinArity(f) /= -1 /\ n /= BuiltinArity(f)
\* a call() without the except clause: what the host function raises escapes
BuiltinCall_NoExcept(f, args, st) ==
  IF WrongArity(f, Len(args))
  THEN Raise(Note(st, CallEvent(f, args, st)),
             InterpreterError("wrong_number_of_arguments", "", 0, 0))
  ELSE LET r == BuiltinFn(f, args, Note(Note(st, CallEvent(f, args, st)), FnEvent(f, st)))
       IN IF Failed(r.st) THEN r
          ELSE R(Note(r.st, ReturnEvent(f, r.val, st)), r.val)
BuiltinCall(f, args, st) ==
  IF WrongArity(f, Len(args))
  THEN Raise(Note(st, CallEvent(f, args, st)),
             InterpreterError("wrong_number_of_arguments", "", 0, 0))
  ELSE LET r == BuiltinFn(f, args, Note(Note(st, CallEvent(f, args, st)), FnEvent(f, st)))
       IN IF Failed(r.st)
          THEN IF r.st.err.kind \in {"InterpreterError", "Unmodelled"} THEN r
               ELSE Raise(r.st, InterpreterError("runtime_error_in_builtin", "", 0, 0))
          ELSE R(Note(r.st, ReturnEvent(f, r.val, st)), r.val)

(***************************************************************************)
(* evaluate, ModuleAccess.                                                 *)
(***************************************************************************)
ClassMember(body, member) ==
  IF \E k \in 1..Len(body) : body[k].kind = "Functions" /\ body[k].name = member
  THEN <<body[CHOOSE k \in 1..Len(body) :
                /\ body[k].kind = "Functions" /\ body[k].name = member
                /\ \A j \in 1..(k - 1) : ~(body[j].kind = "Functions" /\ body[j].name = member)]>>
  ELSE <<>>
\* a resolution that asks the local classes before the imported modules
ResolveModuleAccess_ClassesFirst(node, st) ==
  IF node.module_name \in BuiltinNamespaces
  THEN IF node.member_name \notin BuiltinMembers(node.module_name)
       THEN Raise(st, InterpreterError("module_has_no_member", node.module_name, 0, 0)
                        @@ [member |-> node.member_name])
       ELSE R(st, BuiltinV(node.module_name, node.member_name))
  ELSE IF node.module_name \in DOMAIN st.classes
  THEN IF Len(ClassMember(st.classes[node.module_name].body, node.member_name)) = 0
       THEN Raise(st, InterpreterError("class_has_no_member", node.module_name, 0, 0)
                        @@ [member |-> node.member_name])
       ELSE R(st, FnV(ClassMember(st.classes[node.module_name].body, node.member_name)[1]))
  ELSE IF ModHas(st.modules, node.module_name)
  THEN IF node.member_name \notin DOMAIN ModGet(st.modules, node.module_name)
       THEN Raise(st, InterpreterError("module_has_no_member", node.module_name, 0, 0)
                        @@ [member |-> node.member_name])
       ELSE R(st, ModGet(st.modules, node.module_name)[node.member_name])
  ELSE Raise(st, InterpreterError("no_such_module_or_class", node.module_name, 0, 0))
ResolveModuleAccess(node, st) ==
  IF node.module_name \in BuiltinNamespaces
  THEN IF node.member_name \notin BuiltinMembers(node.module_name)
       THEN Raise(st, InterpreterError("module_has_no_member", node.module_name, 0, 0)
                        @@ [member |-> node.member_name])
       ELSE R(st, BuiltinV(node.module_name, node.member_name))
  ELSE IF ModHas(st.modules, node.module_name)
  THEN IF node.member_name \notin DOMAIN ModGet(st.modules, node.module_name)
       THEN Raise(st, InterpreterError("module_has_no_member", node.module_name, 0, 0)
                        @@ [member |-> node.member_name])
       ELSE R(st, ModGet(st.modules, node.module_name)[node.member_name])
  ELSE IF node.module_name \in DOMAIN st.classes
  THEN IF Len(ClassMember(st.classes[node.module_name].body, node.member_name)) = 0
       THEN Raise(st, InterpreterError("class_has_no_member", node.module_name, 0, 0)
                        @@ [member |-> node.member_name])
       ELSE R(st, FnV(ClassMember(st.classes[node.module_name].body, node.member_name)[1]))
  ELSE Raise(st, InterpreterError("no_such_module_or_class", node.module_name, 0, 0))

(***************************************************************************)
(* The scope swap of a user function call.                                 *)
(***************************************************************************)
\* a callee that starts from the parameters alone
CalleeMemory_Fresh(mem, params, args) == ZipOver([x \in {} |-> NoneV], params, args)
\* a call that leaves the callee's mapping in place
RestoreMemory_Keep(old_memory, st) == st
CalleeMemory(mem, params, args) == ZipOver(mem, params, args)
RestoreMemory(old_memory, st) == [st EXCEPT !.memory = old_memory]
ArityMismatch(func, n) == n /= Len(func.params)
SwapIn(func, args, st) ==
  Note([st EXCEPT !.memory = CalleeMemory(st.memory, func.params, args)],
       [op |-> "swap", fn |-> func.name, params |-> func.params, saved |-> st.memory,
        entry |-> CalleeMemory(st.memory, func.params, args), d |-> st.depth])
SwapOut(func, old_memory, st) ==
  IF Failed(st) THEN st
  ELSE Note(RestoreMemory(old_memory, st),
            [op |-> "restore", fn |-> func.name, exit |-> st.memory,
             memory |-> RestoreMemory(old_memory, st).memory, d |-> st.depth])

(***************************************************************************)
(* The files an import can read, already tokenized and parsed:             *)
(* a path is the sequence of its dot-separated parts.                      *)
(***************************************************************************)
LibFile ==
  << Assign("shared", Number(7)),
     PrintStmt(String(<<"l", "i", "b">>)),
     Functions("setfirst", <<>>,
               <<AssignListElement(ListAccessPos("lst", Number(0)), Number(9))>>),
     Functions("two", <<"a", "b">>, <<PrintStmt(Variable("a"))>>),
     Functions("bump", <<"a">>,
               <<Assign("g", BinOp(Variable("a"), "+", Number(1))),
                 Assign("loc", Number(5)), PrintStmt(Variable("g"))>>),
     Functions("outer", <<"a">>,
               <<Assign("r2", MemberCall("lib", "bump", <<Variable("a")>>)),
                 PrintStmt(Variable("g"))>>) >>
AuxFile ==
  << PrintStmt(String(<<"a", "u", "x">>)),
     Assign("bump", Number(3)),
     Functions("two", <<"a", "b">>, <<PrintStmt(String(<<"a", "2">>))>>),
     Functions("WEDEQUTIR", <<"a">>, <<PrintStmt(String(<<"a", "w">>))>>),
     Call("two", <<Number(1), Number(2)>>),
     Assign("n", Input(<<>>)) >>
FilePaths == {<<"lib", "aby">>, <<"aux", "aby">>}
ParsedFile(path) == IF path = <<"lib", "aby">> THEN LibFile ELSE AuxFile
ModuleName(path, alias) == IF alias /= "" THEN alias ELSE Head(path)

(***************************************************************************)
(* evaluate (evaluator.py) and execute (executor.py).                      *)
(***************************************************************************)
RECURSIVE evaluate(_, _)
RECURSIVE evaluate_node(_, _)
RECURSIVE EvalList(_, _)
RECURSIVE execute(_, _)
RECURSIVE execute_stmt(_, _)
RECURSIVE ExecBlock(_, _)
RECURSIVE WhileIter(_, _, _)
RECURSIVE ForIter(_, _, _, _)
RECURSIVE ImportItems(_, _, _)

\* [evaluate(x) for x in nodes], left to right
EvalList(nodes, st) ==
  IF Len(nodes) = 0 THEN R(st, <<>>)
  ELSE LET h == evaluate(Head(nodes), st)
       IN IF Failed(h.st) THEN R(h.st, <<>>)
          ELSE LET t == EvalList(Tail(nodes), h.st)
               IN R(t.st, <<h.val>> \o t.val)

\* for s in body: execute(s)
ExecBlock(body, st) ==
  IF Len(body) = 0 \/ Failed(st) THEN st
  ELSE ExecBlock(Tail(body), execute(Head(body), st))

\* evaluator.py, the user-function branch of FunctionCall
EvalUserCall(func, args, st) ==
  IF ArityMismatch(func, Len(args))
  THEN Raise(st, InterpreterError("arity", func.name, Len(func.params), Len(args)))
  ELSE R(SwapOut(func, st.memory, ExecBlock(func.body, SwapIn(func, args, st))), NoneV)

EvalCall(node, st) ==
  LET f == IF node.access.kind = "ModuleAccess" THEN evaluate(node.access, st)
           ELSE evaluate(Variable(node.name), st)
  IN IF Failed(f.st) THEN f
     ELSE LET a == EvalList(node.args, f.st)
          IN IF Failed(a.st) THEN R(a.st, NoneV)
             ELSE IF f.val.t = "builtin" THEN BuiltinCall(f.val, a.val, a.st)
             ELSE IF f.val.t = "fn" THEN EvalUserCall(f.val.def, a.val, a.st)
             ELSE Raise(a.st, InterpreterError("not_callable", node.name, 0, 0))

EvalBinOp(node, st) ==
  LET l == evaluate(node.left, st)
  IN IF Failed(l.st) THEN l
     ELSE LET r == evaluate(node.right, l.st)
          IN IF Failed(r.st) THEN r
             ELSE ApplyBinOp(node.op, l.val, r.val, r.st)

evaluate_node(node, st) ==
  CASE node.kind = "Number" -> R(st, IntV(node.num))
    [] node.kind = "String" -> R(st, StrV(node.str))
    [] node.kind = "Variable" -> ResolveVariable(node.name, st)
    [] node.kind = "ListAssign" /\ node.name = "" ->
         LET items == EvalList(node.values, st)
         IN IF Failed(items.st) THEN R(items.st, NoneV) ELSE NewList(items.st, items.val)
    [] node.kind = "ListAccessPos" ->
         IF node.name \notin DOMAIN st.memory
         THEN Raise(st, InterpreterError("undefined_list", node.name, 0, 0))
         ELSE LET ix == evaluate(node.index, st)
              IN IF Failed(ix.st) THEN ix
                 ELSE Subscript(st.memory[node.name], ix.val, ix.st)
    [] node.kind = "BinOp" -> EvalBinOp(node, st)
    [] node.kind = "Input" -> ReadInput(node.prompt, st)
    [] node.kind = "FunctionCall" -> EvalCall(node, st)
    [] node.kind = "ClassCall" ->
         LET c == evaluate(Variable(node.name), st)
         IN IF Failed(c.st) THEN c
            ELSE LET fs == EvalList(node.functionName, c.st)
                 IN IF Failed(fs.st) THEN R(fs.st, NoneV)
                    ELSE IF c.val.t = "builtin" THEN BuiltinCall(c.val, fs.val, fs.st)
                    ELSE R(fs.st, NoneV)
    [] node.kind = "ModuleAccess" -> ResolveModuleAccess(node, st)
    [] OTHER -> Raise(st, InterpreterError("cannot_evaluate_node", node.kind, 0, 0))

evaluate(node, st) == LeaveValue(evaluate_node(node, Enter(st, "evaluate", node)), node)

\* env.memory[name] = value
Bind(name, val, st) ==
  Note([st EXCEPT !.memory = Put(@, name, val)],
       [op |-> "store", name |-> name, val |-> val, d |-> st.depth])

\* while evaluate(stmt.condition): for s in stmt.body: execute(s)
WhileIter(stmt, st, fuel) ==
  LET c == evaluate(stmt.condition, st)
  IN IF Failed(c.st) THEN c.st
     ELSE IF ~Truthy(c.val, c.st) THEN c.st
     ELSE IF fuel = 0 THEN [c.st EXCEPT !.err = HostError("Unmodelled", "loop bound")]
     ELSE LET b == ExecBlock(stmt.body, c.st)
          IN IF Failed(b) THEN b ELSE WhileIter(stmt, b, fuel - 1)

\* for i in range(k, end): env.memory[stmt.var] = i; body
\* a range that includes its end
ForRange_Inclusive(start, end) ==
  [k \in 1..(IF end >= start THEN end - start + 1 ELSE 0) |-> start + k - 1]
ForRange(start, end) == [k \in 1..(IF end > start THEN end - start ELSE 0) |-> start + k - 1]
ForIter(stmt, values, st, n) ==
  IF n > Len(values) \/ Failed(st) THEN st
  ELSE ForIter(stmt, values, ExecBlock(stmt.body, Bind(stmt.var, IntV(values[n]), st)), n + 1)

\* a conditional whose then-body falls through into the else-body
ExecConditionals_Fallthrough(stmt, st) ==
  LET c == evaluate(stmt.condition, st)
  IN IF Failed(c.st) THEN c.st
     ELSE IF Truthy(c.val, c.st)
     THEN IF stmt.else_body.kind /= "None"
          THEN ExecBlock(stmt.else_body.stmts, ExecBlock(stmt.body, c.st))
          ELSE ExecBlock(stmt.body, c.st)
     ELSE IF stmt.elseif_condition.kind /= "None"
     THEN LET e == evaluate(stmt.elseif_condition, c.st)
          IN IF Failed(e.st) THEN e.st
             ELSE IF Truthy(e.val, e.st) THEN ExecBlock(stmt.elseif_body, e.st)
             ELSE IF stmt.else_body.kind /= "None" THEN ExecBlock(stmt.else_body.stmts, e.st)
             ELSE e.st
     ELSE IF stmt.else_body.kind /= "None" THEN ExecBlock(stmt.else_body.stmts, c.st)
     ELSE c.st
\* Conditionals: which branch runs, after the conditions it evaluates
ExecConditionals(stmt, st) ==
  LET c == evaluate(stmt.condition, st)
  IN IF Failed(c.st) THEN c.st
     ELSE IF Truthy(c.val, c.st) THEN ExecBlock(stmt.body, c.st)
     ELSE IF stmt.elseif_condition.kind /= "None"
     THEN LET e == evaluate(stmt.elseif_condition, c.st)
          IN IF Failed(e.st) THEN e.st
             ELSE IF Truthy(e.val, e.st) THEN ExecBlock(stmt.elseif_body, e.st)
             ELSE IF stmt.else_body.kind /= "None" THEN ExecBlock(stmt.else_body.stmts, e.st)
             ELSE e.st
     ELSE IF stmt.else_body.kind /= "None" THEN ExecBlock(stmt.else_body.stmts, c.st)
     ELSE c.st

\* executor.py, FunctionCall: local functions, then imported modules
ModuleFunction(mods, name) ==
  LET hit(k) == /\ name \in DOMAIN mods[k].content
                /\ mods[k].content[name].t = "fn"
  IN IF \E k \in 1..Len(mods) : hit(k)
     THEN <<mods[CHOOSE k \in 1..Len(mods) : hit(k) /\ \A j \in 1..(k - 1) : ~hit(j)]
              .content[name].def>>
     ELSE <<>>
\* a lookup that asks the imported modules before the local functions
LookupFunction_ModulesFirst(stmt, st) ==
  IF stmt.access.kind = "ModuleAccess" THEN <<>>
  ELSE IF Len(ModuleFunction(st.modules, stmt.name)) > 0
  THEN ModuleFunction(st.modules, stmt.name)
  ELSE IF stmt.name \in DOMAIN st.functions THEN <<st.functions[stmt.name]>>
  ELSE <<>>
LookupFunction(stmt, st) ==
  IF stmt.access.kind = "ModuleAccess" THEN <<>>
  ELSE IF stmt.name \in DOMAIN st.functions THEN <<st.functions[stmt.name]>>
  ELSE ModuleFunction(st.modules, stmt.name)
ExecArityError(stmt, func) ==
  Err("Exception", "arity", stmt.name, Len(func.params), Len(stmt.args))
ExecUserCall(stmt, func, st) ==
  IF ArityMismatch(func, Len(stmt.args))
  THEN [st EXCEPT !.err = ExecArityError(stmt, func)]
  ELSE LET a == EvalList(stmt.args, st)
       IN IF Failed(a.st) THEN a.st
          ELSE SwapOut(func, a.st.memory, ExecBlock(func.body, SwapIn(func, a.val, a.st)))

\* executor.py, ImportStatement: the loop over the file's top-level nodes
ImportItems(ast, content, st) ==
  IF Len(ast) = 0 \/ Failed(st) THEN R(st, content)
  ELSE IF Head(ast).kind = "Assign"
  THEN LET v == evaluate(Head(ast).value, st)
       IN IF Failed(v.st) THEN R(v.st, content)
          ELSE ImportItems(Tail(ast), Put(content, Head(ast).name, v.val), v.st)
  ELSE IF Head(ast).kind = "Functions"
  THEN ImportItems(Tail(ast), Put(content, Head(ast).name, FnV(Head(ast))), st)
  ELSE ImportItems(Tail(ast), content, st)
ExecImport(stmt, st) ==
  IF stmt.path \notin FilePaths
  THEN [st EXCEPT !.err = HostError("FileNotFoundError", "No such file or directory")]
  ELSE LET m == ImportItems(ParsedFile(stmt.path), <<>>, st)
       IN IF Failed(m.st) THEN m.st
          ELSE [m.st EXCEPT !.modules = ModPut(@, ModuleName(stmt.path, stmt.alias), m.val)]

execute_stmt(stmt, st) ==
  CASE stmt.kind = "Assign" ->
         LET v == evaluate(stmt.value, st)
         IN IF Failed(v.st) THEN v.st ELSE Bind(stmt.name, v.val, v.st)
    [] stmt.kind = "ListAssign" ->
         LET items == EvalList(stmt.values, st)
         IN IF Failed(items.st) THEN items.st
            ELSE LET l == NewList(items.st, items.val) IN Bind(stmt.name, l.val, l.st)
    [] stmt.kind = "AssignListElement" ->
         LET ix == evaluate(stmt.list_access.index, st)
         IN IF Failed(ix.st) THEN ix.st
            ELSE LET v == evaluate(stmt.value, ix.st)
                 IN IF Failed(v.st) THEN v.st
                    ELSE IF stmt.list_access.name \notin DOMAIN v.st.memory
                    THEN [v.st EXCEPT !.err =
                            Err("Exception", "undefined_list", stmt.list_access.name, 0, 0)]
                    ELSE StoreItem(v.st.memory[stmt.list_access.name], ix.val, v.val, v.st)
    [] stmt.kind = "Print" ->
         LET v == evaluate(stmt.expr, st)
         IN IF Failed(v.st) THEN v.st ELSE WritePrint(v.val, v.st)
    [] stmt.kind = "Input" -> ReadInput(stmt.prompt, st).st
    [] stmt.kind = "Conditionals" -> ExecConditionals(stmt, st)
    [] stmt.kind = "WhileLoop" -> WhileIter(stmt, st, MaxWhile)
    [] stmt.kind = "ForLoop" ->
         LET s == evaluate(stmt.start, st)
         IN IF Failed(s.st) THEN s.st
            ELSE LET e == evaluate(stmt.end, s.st)
                 IN IF Failed(e.st) THEN e.st
                    ELSE IF ~(IsNum(s.val) /\ IsNum(e.val))
                    THEN [e.st EXCEPT !.err = HostError("TypeError", "cannot be interpreted as an integer")]
                    ELSE ForIter(stmt, ForRange(NumOf(s.val), NumOf(e.val)), e.st, 1)
    [] stmt.kind = "Functions" -> [st EXCEPT !.functions = Put(@, stmt.name, stmt)]
    [] stmt.kind = "FunctionCall" ->
         IF Len(LookupFunction(stmt, st)) = 0 THEN evaluate(stmt, st).st
         ELSE ExecUserCall(stmt, LookupFunction(stmt, st)[1], st)
    [] stmt.kind \in {"ListAccessPos", "BinOp", "Variable", "Number", "String"} ->
         evaluate(stmt, st).st
    [] stmt.kind = "ImportStatement" -> ExecImport(stmt, st)
    [] OTHER -> [st EXCEPT !.err = Err("Exception", "unknown_statement_type", stmt.kind, 0, 0)]

execute(stmt, st) == LeaveStmt(execute_stmt(stmt, Enter(st, "execute", stmt)), stmt)

(***************************************************************************)
(* The programs and inputs the interpreter is run on.                      *)
(***************************************************************************)
Txt(c) == String(<<c>>)
ImportLib == ImportStatement(<<"lib", "aby">>, "")
ToInt(e) == Call("WEDEQUTIR", <<e>>)
PureExprs ==
  {Number(0), Number(1), String(<<>>), Txt("s"), Variable("x"),
   BinOp(Variable("x"), ">", Number(1))}
EffectExprs ==
  {Input(<<>>), Variable("undef"), MemberCall("lib", "setfirst", <<>>),
   ListAccessPos("lst", Number(5))}
LogicPrograms ==
  { << ImportLib, Assign("x", Number(x0)), ListAssign("lst", <<Number(1)>>),
       PrintStmt(BinOp(l, op, r)), PrintStmt(ListAccessPos("lst", Number(0))) >> :
      x0 \in {0, 2}, l \in PureExprs \cup {Input(<<>>)}, op \in {"&&", "||"},
      r \in EffectExprs \cup {Number(2)} }

Nums(n) == [k \in 1..n |-> Number(k + 1)]
HelperH == Functions("h", <<"b">>, <<Assign("g", Variable("b")), Assign("hloc", Number(1))>>)
CallBodies ==
  { <<PrintStmt(Variable("g"))>>,
    <<Assign("g", Number(9)), PrintStmt(Variable("g"))>>,
    <<Assign("loc", Number(5)), PrintStmt(Variable("loc"))>>,
    <<Call("h", <<Number(3)>>), PrintStmt(Variable("g"))>>,
    <<AssignListElement(ListAccessPos("lst", Number(0)), Number(9))>>,
    <<Conditionals(BinOp(Variable("a"), ">", Number(0)),
                   <<PrintStmt(Variable("a")),
                     Call("f", <<BinOp(Variable("a"), "-", Number(1))>>)>>,
                   NoneNode, <<>>, NoneNode)>> }
CallForms(f, args) ==
  { Call(f, args), Assign("r", Call(f, args)), PrintStmt(Call(f, args)) }
CallPrograms ==
  { << Assign("g", Number(1)), ListAssign("lst", <<Number(1)>>), HelperH,
       Functions("f", params, body), c, PrintStmt(Variable("g")) >> :
      params \in {<<>>, <<"a">>, <<"a", "b">>, <<"g">>}, body \in CallBodies,
      c \in UNION {CallForms("f", Nums(n)) : n \in 0..2} }
MemberForms(fn, args) ==
  { Assign("r", MemberCall("lib", fn, args)), PrintStmt(MemberCall("lib", fn, args)),
    MemberCall("lib", fn, args), Call(fn, args), Assign("r", ModuleAccess("lib", fn)) }
ModulePrograms ==
  { << ImportStatement(<<"lib", "aby">>, alias), Assign("g", Number(1)),
       ListAssign("lst", <<Number(1)>>), c, PrintStmt(Variable("g")),
       PrintStmt(Variable("lst")) >> :
      alias \in {"", "m"},
      c \in UNION {MemberForms(fn, Nums(n)) :
                    fn \in {"two", "bump", "outer", "setfirst", "shared", "nope"},
                    n \in 0..2} }
ValuePrograms ==
  { << ImportLib, Assign("fv", ModuleAccess("lib", fn)), Assign("g", Number(1)),
       c, PrintStmt(Variable("g")) >> :
      fn \in {"two", "bump", "shared"},
      c \in UNION {CallForms("fv", Nums(n)) : n \in 0..2} }

ForBodies ==
  { <<>>,
    <<PrintStmt(Variable("i"))>>,
    <<PrintStmt(Variable("i")), Assign("i", Number(7))>>,
    <<PrintStmt(Variable("i")), Assign("n", BinOp(Variable("n"), "+", Number(1)))>>,
    <<PrintStmt(Variable("i")), PrintStmt(Variable("undef"))>> }
ForBounds == {Number(0), Number(1), Number(3), Variable("n"), ToInt(Input(<<>>)), Txt("s")}
ForPrograms ==
  { << Assign("n", Number(2)), ForLoop("i", s, e, body), PrintStmt(Variable("i")) >> :
      s \in ForBounds, e \in ForBounds, body \in ForBodies }
ForInFunction ==
  { << Assign("n", Number(2)),
       Functions("f", <<"a">>, <<ForLoop("i", Variable("a"), e, <<PrintStmt(Variable("i"))>>),
                                 PrintStmt(Variable("i"))>>),
       Call("f", <<Number(k)>>), PrintStmt(Variable("i")) >> :
      e \in ForBounds, k \in 0..2 }

CondExprs == {Number(0), Number(1), Input(<<>>), Variable("undef"), Variable("x")}
CondPrograms ==
  { << Assign("x", String(<<>>)),
       Conditionals(c1, <<PrintStmt(Txt("t"))>>, c2, <<PrintStmt(Txt("e"))>>, other),
       PrintStmt(Variable("x")) >> :
      c1 \in CondExprs, c2 \in CondExprs \cup {NoneNode},
      other \in {NoneNode, Block(<<PrintStmt(Txt("o"))>>), Block(<<>>)} }

VariablePrograms ==
  { << Assign(bound, Number(3)), PrintStmt(Variable(name)), Variable(name) >> :
      bound \in {"x", "WEDEQUTIR", "HISAB"},
      name \in {"x", "undef", "WEDEQUTIR", "HISAB", "abs"} }

BuiltinArgs == {Number(-2), Txt("s"), Variable("lst")}
BuiltinCallees ==
  { [name |-> "", access |-> ModuleAccess("HISAB", "abs")],
    [name |-> "", access |-> ModuleAccess("HISAB", "max")],
    [name |-> "", access |-> ModuleAccess("TSIHUF", "RIZMET")],
    [name |-> "", access |-> ModuleAccess("ZIRZIR", "CHEMIR")],
    [name |-> "WEDEQUTIR", access |-> NoneNode] }
BuiltinPrograms ==
  { << ListAssign("lst", <<Number(1)>>),
       IF form = "Assign" THEN Assign("r", FunctionCall(c.name, c.access, args))
       ELSE IF form = "Print" THEN PrintStmt(FunctionCall(c.name, c.access, args))
       ELSE FunctionCall(c.name, c.access, args),
       PrintStmt(Variable("lst")) >> :
      c \in BuiltinCallees, form \in {"Assign", "Print", "Call"},
      args \in UNION {[1..n -> BuiltinArgs] : n \in 0..2} }

ClassK ==
  ClassDef("K", <<Functions("get", <<>>, <<PrintStmt(Txt("k"))>>), Assign("cv", Number(1))>>)
OddStatements ==
  { AssignListElement(ListAccessPos("nolist", Number(0)), Number(9)),
    AssignListElement(ListAccessPos("nolist", Variable("undef")), Number(9)),
    AssignListElement(ListAccessPos("g", Number(0)), Number(9)),
    AssignListElement(ListAccessPos("lst", Number(0)), Number(9)),
    ModuleAccess("HISAB", "abs"), ClassK,
    Functions("get", <<"p">>, <<PrintStmt(Txt("d")), Assign("dv", Number(1))>>),
    Input(<<>>) }
ExecutorPrograms ==
  { << Assign("g", Number(1)), ListAssign("lst", <<Number(1)>>),
       Functions("f", <<"a">>, <<s, PrintStmt(Txt("f"))>>), t, c,
       Assign("r", ModuleAccess("K", "get")), PrintStmt(Variable("g")) >> :
      s \in OddStatements, t \in OddStatements \cup {PrintStmt(Txt("t"))},
      c \in {Call("f", <<Number(1)>>), Call("f", <<>>), Assign("r", Call("f", <<Number(1)>>)),
             Call("get", <<Number(1)>>)} }

Imports ==
  { ImportStatement(<<"lib", "aby">>, ""), ImportStatement(<<"aux", "aby">>, ""),
    ImportStatement(<<"aux", "aby">>, "lib"), ImportStatement(<<"aux", "aby">>, "m"),
    PrintStmt(Txt("-")) }
LocalDefs ==
  { Functions("two", <<"a", "b">>, <<PrintStmt(Txt("L"))>>),
    Functions("WEDEQUTIR", <<"a">>, <<PrintStmt(Txt("L"))>>),
    Assign("two", Number(5)), Assign("bump", Number(5)), PrintStmt(Txt("-")) }
ResolutionPrograms ==
  { << i1, i2, d, Call(f, Nums(n)), PrintStmt(ModuleAccess("aux", "n")) >> :
      i1 \in Imports, i2 \in Imports, d \in LocalDefs,
      f \in {"two", "bump", "WEDEQUTIR", "nope"}, n \in 1..2 }

WhilePrograms ==
  { << Assign("n", Number(k)),
       WhileLoop(BinOp(Variable("n"), "<", Number(3)),
                 <<Assign("n", BinOp(Variable("n"), "+", Number(1)))>>),
       PrintStmt(Variable("n")) >> : k \in 0..3 }

Programs ==
  LogicPrograms \cup CallPrograms \cup ModulePrograms \cup ValuePrograms
    \cup ForPrograms \cup ForInFunction \cup CondPrograms \cup VariablePrograms
    \cup WhilePrograms \cup BuiltinPrograms \cup ExecutorPrograms
    \cup ResolutionPrograms
Line(c) == <<c>>
Inputs == { <<>>, <<Line("2")>>, <<<<>>, Line("2")>> }

(***************************************************************************)
(* The run: main.py hands the AST to run(), which executes the top-level   *)
(* statements in order; pc counts the statements started.                  *)
(***************************************************************************)
Pack ==
  [memory |-> memory, functions |-> functions, modules |-> modules,
   classes |-> classes, heap |-> heap, stdin |-> stdin, stdout |-> stdout,
   err |-> err, xlog |-> <<>>, depth |-> 0]
FrontIdle ==
  /\ src = <<>> /\ code = <<>> /\ i = 0 /\ line = 1 /\ col = 1 /\ tokens = <<>>
  /\ lexerr = NoErr /\ phase = "idle" /\ pos = 0 /\ pline = 0 /\ pcol = 0
  /\ perr = NoErr
Init ==
  /\ prog \in Programs
  /\ stdin \in Inputs
  /\ pc = 1
  /\ memory = <<>> /\ functions = <<>> /\ modules = <<>> /\ classes = <<>>
  /\ heap = <<>> /\ stdout = <<>> /\ err = NoErr /\ report = "none"
  /\ xlog = <<>>
  /\ FrontIdle
Install(st) ==
  /\ memory' = st.memory /\ functions' = st.functions /\ modules' = st.modules
  /\ classes' = st.classes /\ heap' = st.heap /\ stdin' = st.stdin
  /\ stdout' = st.stdout /\ err' = st.err /\ xlog' = st.xlog
run ==
  /\ pc <= Len(prog) /\ err = NoErr
  /\ Install(execute(prog[pc], Pack))
  /\ pc' = pc + 1
  /\ UNCHANGED <<prog, report>>
  /\ UNCHANGED frontVars
IsBaseError(e) == e.kind \in {"InterpreterError", "ParseError", "LexerError"}
ReportUser ==
  /\ err /= NoErr /\ report = "none" /\ IsBaseError(err)
  /\ report' = "user"
  /\ UNCHANGED <<prog, pc, memory, functions, modules, classes, heap, stdin, stdout, err, xlog>>
  /\ UNCHANGED frontVars
ReportInternal ==
  /\ err /= NoErr /\ report = "none" /\ ~IsBaseError(err)
  /\ report' = "internal"
  /\ UNCHANGED <<prog, pc, memory, functions, modules, classes, heap, stdin, stdout, err, xlog>>
  /\ UNCHANGED frontVars
Next == run \/ ReportUser \/ ReportInternal
Spec == Init /\ [][Next]_vars

ModelCovers == err.kind /= "Unmodelled"

(***************************************************************************)
(* Reading the call trace of the statement run() executed last.            *)
(* An "execute"/"evaluate" event at depth d opens a call; its "done"/      *)
(* "value" event at the same depth closes it; the calls it makes are at    *)
(* depth d + 1.                                                            *)
(***************************************************************************)
Ev == 1..Len(xlog)
Opens(p, what, kind) == xlog[p].op = what /\ xlog[p].node.kind = kind
\* q closes the call opened at p
Closes(p, q) ==
  /\ q > p
  /\ xlog[q].op \in {"done", "value"}
  /\ xlog[q].d = xlog[p].d
  /\ \A k \in (p + 1)..(q - 1) : ~(xlog[k].op \in {"done", "value"} /\ xlog[k].d = xlog[p].d)
\* the events of op `what` directly inside the call opened at p and closed at q
Inside(p, q, what) ==
  SelectSeq([k \in 1..(q - p - 1) |-> xlog[p + k]],
            LAMBDA e : e.op = what /\ e.d = xlog[p].d + 1)
\* the value of the first call made by the call opened at p, closed at q
FirstValue(p, q) == Inside(p, q, "value")[1]
Nodes(events) == [k \in 1..Len(events) |-> events[k].node]
LastStmt == prog[pc - 1]
Ran == pc > 1

\* C1: in `L && R` with L falsy and in `L || R` with L truthy, evaluate never
\* evaluates R: once the value of L is known, no evaluation of R follows.
C1_ShortCircuit ==
  \A p \in Ev : \A q \in Ev :
    ( /\ Opens(p, "evaluate", "BinOp")
      /\ xlog[p].node.op \in {"&&", "||"}
      /\ q > p
      /\ xlog[q].op = "value" /\ xlog[q].d = xlog[p].d + 1
      /\ \A k \in (p + 1)..(q - 1) : ~(xlog[k].op = "value" /\ xlog[k].d = xlog[p].d + 1)
      /\ xlog[q].truth = (xlog[p].node.op = "||") )
    => ~( /\ q < Len(xlog)
          /\ xlog[q + 1].op = "evaluate"
          /\ xlog[q + 1].d = xlog[p].d + 1
          /\ xlog[q + 1].node = xlog[p].node.right )

(***************************************************************************)
(* The call a top-level statement makes first, read off the state before   *)
(* run() executes it.                                                      *)
(***************************************************************************)
Running == pc <= Len(prog) /\ err = NoErr
\* the FunctionCall node of the statement: the statement itself, or the
\* expression of an Assign or a Print
CallNode(s) ==
  IF s.kind = "FunctionCall" THEN <<s>>
  ELSE IF s.kind = "Assign" /\ s.value.kind = "FunctionCall" THEN <<s.value>>
  ELSE IF s.kind = "Print" /\ s.expr.kind = "FunctionCall" THEN <<s.expr>>
  ELSE <<>>
\* the user function an expression-position call resolves its callee to
CalleeFn(node) ==
  LET f == IF node.access.kind = "ModuleAccess" THEN ResolveModuleAccess(node.access, Pack)
           ELSE ResolveVariable(node.name, Pack)
  IN IF ~Failed(f.st) /\ f.val.t = "fn" THEN <<f.val.def>> ELSE <<>>
\* the user function the statement calls, in statement or expression position
TargetFn(s) ==
  IF Len(CallNode(s)) = 0 THEN <<>>
  ELSE IF s.kind = "FunctionCall" /\ Len(LookupFunction(s, Pack)) > 0
  THEN LookupFunction(s, Pack)
  ELSE CalleeFn(CallNode(s)[1])
SwapEvents(log) == SelectSeq(log, LAMBDA e : e.op = "swap")

\* C2: a call of a user function with a wrong number of arguments, in
\* statement position and in expression position alike, fails with an
\* InterpreterError naming the expected and the received count, and no
\* statement of the body is executed.
C2_ArityMismatch ==
  [][ ( /\ Running
        /\ Len(TargetFn(prog[pc])) = 1
        /\ Len(CallNode(prog[pc])[1].args) /= Len(TargetFn(prog[pc])[1].params) )
      => ( /\ err'.kind = "InterpreterError"
           /\ err'.tag = "arity"
           /\ err'.a = Len(TargetFn(prog[pc])[1].params)
           /\ err'.b = Len(CallNode(prog[pc])[1].args)
           /\ Len(SwapEvents(xlog')) = 0 ) ]_vars

\* C5: a call, in expression position and with a matching argument count,
\* of a plain name registered by a FunctionDef resolves to that definition,
\* executes its body and yields None.
C5_ExpressionCall ==
  [][ ( /\ Running
        /\ prog[pc].kind \in {"Assign", "Print"}
        /\ Len(CallNode(prog[pc])) = 1
        /\ CallNode(prog[pc])[1].access.kind = "None"
        /\ CallNode(prog[pc])[1].name \in DOMAIN functions
        /\ Len(CallNode(prog[pc])[1].args)
             = Len(functions[CallNode(prog[pc])[1].name].params) )
      => ( /\ Len(SwapEvents(xlog')) > 0
           /\ SwapEvents(xlog')[1].fn = CallNode(prog[pc])[1].name
           /\ err'.kind = "none" =>
                \E k \in 1..Len(xlog') :
                  /\ xlog'[k].op = "value" /\ xlog'[k].node = CallNode(prog[pc])[1]
                  /\ xlog'[k].val = NoneV ) ]_vars

(***************************************************************************)
(* The scope swap in the trace: a "swap" event holds the caller's mapping  *)
(* (saved) and the callee's starting mapping (entry); the "restore" event  *)
(* of the same call holds the callee's mapping at the end of the body      *)
(* (exit) and env.memory after the call (memory).                          *)
(***************************************************************************)
Frame(a, b) ==
  /\ a < b
  /\ xlog[a].op = "swap" /\ xlog[b].op = "restore" /\ xlog[a].d = xlog[b].d
  /\ \A k \in (a + 1)..(b - 1) :
       ~(xlog[k].op \in {"swap", "restore"} /\ xlog[k].d = xlog[a].d)
ParamSet(a) == {xlog[a].params[k] : k \in 1..Len(xlog[a].params)}
\* event k is a binding made by the body of the call a..b in the callee's own
\* mapping, to a caller variable that is no parameter
LeakedStore(a, b, k) ==
  /\ a < k /\ k < b
  /\ xlog[k].op = "store" /\ xlog[k].d = xlog[a].d + 1
  /\ xlog[k].name \in DOMAIN xlog[a].saved
  /\ xlog[k].name \notin ParamSet(a)
NoLaterStore(b, k) ==
  \A j \in (k + 1)..(b - 1) : ~(xlog[j].op = "store" /\ xlog[j].name = xlog[k].name)

\* C3 as stated: an Assign in the body to a caller variable that is no
\* parameter overwrites the caller's variable.
C3_CallerOverwritten ==
  \A a \in Ev : \A b \in Ev : \A k \in Ev :
    (Frame(a, b) /\ LeakedStore(a, b, k) /\ NoLaterStore(b, k))
      => xlog[b].memory[xlog[k].name] = xlog[k].val

\* C3 as amended: the callee starts from the caller's full mapping with the
\* parameters bound over it, so it reads every caller variable that is no
\* parameter; an Assign in the body to such a variable rebinds the callee's
\* copy only, and the caller's variable keeps its value.
C3_ScopeLeak ==
  \A a \in Ev :
    xlog[a].op = "swap" =>
      /\ DOMAIN xlog[a].entry = DOMAIN xlog[a].saved \cup ParamSet(a)
      /\ \A x \in DOMAIN xlog[a].saved :
           x \notin ParamSet(a) => xlog[a].entry[x] = xlog[a].saved[x]
      /\ \A b \in Ev : \A k \in Ev :
           (Frame(a, b) /\ LeakedStore(a, b, k)) =>
             /\ NoLaterStore(b, k) => xlog[b].exit[xlog[k].name] = xlog[k].val
             /\ xlog[b].memory[xlog[k].name] = xlog[a].saved[xlog[k].name]
C3_Witness ==
  \E a \in Ev : \E b \in Ev : \E k \in Ev :
    /\ Frame(a, b) /\ LeakedStore(a, b, k) /\ NoLaterStore(b, k)
    /\ xlog[k].val /= xlog[a].saved[xlog[k].name]
    /\ \E x \in DOMAIN xlog[a].saved : x \notin ParamSet(a) /\ x /= xlog[k].name

\* C4: after a user function call that returns normally, nested and
\* recursive calls included, env.memory is the caller's mapping as saved at
\* call time: the parameters and the names first assigned in the body are
\* unbound again, every name bound before the call is still bound.
C4_ScopeRestored ==
  \A a \in Ev : \A b \in Ev :
    Frame(a, b) =>
      /\ MapEq(xlog[b].memory, xlog[a].saved)
      /\ \A x \in DOMAIN xlog[b].exit :
           x \notin DOMAIN xlog[a].saved => x \notin DOMAIN xlog[b].memory
      /\ (xlog[a].d = 1 /\ err = NoErr) => MapEq(memory, xlog[a].saved)
C4_Witness ==
  \E a \in Ev : \E b \in Ev :
    /\ Frame(a, b)
    /\ xlog[a].d >= 2
    /\ DOMAIN xlog[b].exit /= DOMAIN xlog[a].saved
    /\ \E k \in Ev : k > b /\ xlog[k].op = "restore" /\ xlog[k].d < xlog[a].d

(***************************************************************************)
(* Loops and conditionals in the trace.                                    *)
(***************************************************************************)
Iterations(s, e) == IF e > s THEN e - s ELSE 0
RECURSIVE Times(_, _)
Times(body, n) == IF n = 0 THEN <<>> ELSE body \o Times(body, n - 1)

\* C6: a ForLoop that completes evaluates start and end once each, in that
\* order and before the first binding; binds var in the enclosing mapping to
\* start, start+1, ..., end-1 in that order and executes the body
\* max(0, end-start) times, whatever the body assigns.
C6_ForLoopBound ==
  \A p \in Ev : \A q \in Ev :
    (Opens(p, "execute", "ForLoop") /\ Closes(p, q)) =>
      LET stmt == xlog[p].node
          bounds == Inside(p, q, "value")
          binds == Inside(p, q, "store")
          s == NumOf(bounds[1].val)
          e == NumOf(bounds[2].val)
      IN /\ Nodes(Inside(p, q, "evaluate")) = <<stmt.start, stmt.end>>
         /\ Len(bounds) = 2
         /\ xlog[p + 1].op = "evaluate"
         /\ \A k \in (p + 1)..(q - 1) :
              (xlog[k].op = "evaluate" /\ xlog[k].d = xlog[p].d + 1) =>
                \A j \in (p + 1)..(k - 1) : xlog[j].op /= "store"
         /\ Len(binds) = Iterations(s, e)
         /\ \A k \in 1..Len(binds) :
              binds[k].name = stmt.var /\ binds[k].val = IntV(s + k - 1)
         /\ Nodes(Inside(p, q, "execute")) = Times(stmt.body, Iterations(s, e))
         /\ (xlog[p].d = 0 /\ Iterations(s, e) > 0) => stmt.var \in DOMAIN memory
C6_Witness ==
  \E p \in Ev : \E q \in Ev :
    /\ Opens(p, "execute", "ForLoop") /\ Closes(p, q)
    /\ Len(Inside(p, q, "store")) = 3
    /\ \E k \in (p + 1)..(q - 1) :
         /\ xlog[k].op = "store" /\ xlog[k].d = xlog[p].d + 2
         /\ xlog[k].name = xlog[p].node.var

\* the branch of a conditional the two condition values select
Chosen(stmt, conds) ==
  IF conds[1].truth THEN stmt.body
  ELSE IF stmt.elseif_condition.kind /= "None" /\ conds[2].truth THEN stmt.elseif_body
  ELSE IF stmt.else_body.kind /= "None" THEN stmt.else_body.stmts
  ELSE <<>>

\* C7: a conditional that completes runs the statements of exactly the
\* branch its conditions select and of no other; the else-if condition is
\* evaluated only when the first condition is falsy.
C7_OneBranch ==
  \A p \in Ev : \A q \in Ev :
    (Opens(p, "execute", "Conditionals") /\ Closes(p, q)) =>
      LET stmt == xlog[p].node
          conds == Inside(p, q, "value")
      IN /\ Len(conds) >= 1
         /\ Nodes(Inside(p, q, "evaluate")) =
              IF ~conds[1].truth /\ stmt.elseif_condition.kind /= "None"
              THEN <<stmt.condition, stmt.elseif_condition>>
              ELSE <<stmt.condition>>
         /\ Len(conds) = Len(Inside(p, q, "evaluate"))
         /\ Nodes(Inside(p, q, "execute")) = Chosen(stmt, conds)
C7_Witness ==
  \E p \in Ev : \E q \in Ev :
    /\ Opens(p, "execute", "Conditionals") /\ Closes(p, q)
    /\ Inside(p, q, "value")[1].truth
    /\ xlog[p].node.elseif_condition.kind /= "None"
    /\ xlog[p].node.else_body.kind /= "None"
    /\ Len(xlog[p].node.else_body.stmts) > 0
    /\ Len(Inside(p, q, "execute")) = Len(xlog[p].node.body)

\* the Variable node a top-level statement evaluates: the statement itself
\* or the expression of a Print
VarNode(s) ==
  IF s.kind = "Variable" THEN <<s>>
  ELSE IF s.kind = "Print" /\ s.expr.kind = "Variable" THEN <<s.expr>>
  ELSE <<>>
Yields(log, node, v) ==
  \E k \in 1..Len(log) : log[k].op = "value" /\ log[k].node = node /\ log[k].val = v

\* C8: evaluating Variable(name) yields the value bound in the variable
\* mapping when name is bound there, a built-in of the same name
\* notwithstanding; otherwise the built-in registry's entry; otherwise it
\* fails with an InterpreterError that names the identifier. The environment
\* is left as it was.
C8_IdentifierResolution ==
  [][ (Running /\ Len(VarNode(prog[pc])) = 1) =>
        LET name == VarNode(prog[pc])[1].name
        IN /\ IF name \in DOMAIN memory
              THEN err' = NoErr /\ Yields(xlog', VarNode(prog[pc])[1], memory[name])
              ELSE IF name \in BuiltinNames
              THEN err' = NoErr /\ Yields(xlog', VarNode(prog[pc])[1], builtins(name))
              ELSE /\ err'.kind = "InterpreterError"
                   /\ err'.tag = "undefined_identifier"
                   /\ err'.name = name
           /\ MapEq(memory', memory) /\ MapEq(functions', functions)
           /\ modules' = modules /\ classes' = classes /\ heap' = heap /\ stdin' = stdin
           /\ prog[pc].kind = "Variable" => stdout' = stdout ]_vars
C8_Witness ==
  /\ Ran /\ err = NoErr
  /\ LastStmt.kind = "Variable"
  /\ LastStmt.name \in BuiltinNames
  /\ LastStmt.name \in DOMAIN memory
  /\ Yields(xlog, LastStmt, memory[LastStmt.name])

(***************************************************************************)
(* lexer.py: characters.                                                   *)
(***************************************************************************)
EthiopicLetters ==
  {"LA", "KA", "HO", "NA", "KAA", "LE", "LEE", "LAA", "GLOTTAL_E", "YAA", "SE",
   "TA", "GE", "BAA", "RE", "GLOTTAL_A", "SAA", "YE", "THA", "QE", "GA", "NE",
   "DA", "KE", "FE", "NAA", "WA", "ME"}
AsciiLetters == {"a", "b", "i", "n", "x", "y"}
AsciiDigits == {"0", "1", "2", "3", "4", "5", "6", "7", "8", "9"}
\* U+00E1, the letter NFKC composes from "a" and the combining acute "ACUTE"
ComposedLetters == {"A_ACUTE"}
\* \w of the regular expressions, and the class [\w U+1200-U+1350]
IsWord(c) ==
  c \in EthiopicLetters \cup AsciiLetters \cup ComposedLetters \cup AsciiDigits \cup {"_"}
\* str.isspace
IsSpace(c) == c \in {" ", "\n", "\t"}

Drop(s, n) == SubSeq(s, n + 1, Len(s))
StartsWith(s, p) == Len(s) >= Len(p) /\ SubSeq(s, 1, Len(p)) = p

\* str.replace(old, new): left to right, matches do not overlap
RECURSIVE Replace(_, _, _)
Replace(s, old, new) ==
  IF Len(s) = 0 THEN <<>>
  ELSE IF StartsWith(s, old) THEN new \o Replace(Drop(s, Len(old)), old, new)
  ELSE <<Head(s)>> \o Replace(Tail(s), old, new)

\* unicodedata.normalize("NFKC", .) on the characters of the model: the
\* no-break space has a compatibility mapping, and "a" composes with a
\* combining acute that follows it directly
RECURSIVE NFKC(_)
NFKC(s) ==
  IF Len(s) = 0 THEN <<>>
  ELSE IF StartsWith(s, <<"a", "ACUTE">>) THEN <<"A_ACUTE">> \o NFKC(Drop(s, 2))
  ELSE IF Head(s) = "NBSP" THEN <<" ">> \o NFKC(Tail(s))
  ELSE <<Head(s)>> \o NFKC(Tail(s))

normalize_code(text) ==
  LET c0 == NFKC(text)
      c1 == Replace(c0, <<"SHY">>, <<>>)
      c2 == Replace(c1, <<"ETHIOPIC_FULL_STOP">>, <<";">>)
      c3 == Replace(c2, <<"ETHIOPIC_COMMA">>, <<",">>)
      c4 == Replace(c3, <<"ETHIOPIC_WORDSPACE">>, <<".">>)
      c5 == Replace(c4, <<"GLOTTAL_E", "NAA">>, <<"&", "&">>)
      c6 == Replace(c5, <<"WA", "YE", "ME">>, <<"|", "|">>)
      c7 == Replace(Replace(c6, <<"LDQUO">>, <<"\"">>), <<"RDQUO">>, <<"\"">>)
      c8 == Replace(Replace(c7, <<"LSQUO">>, <<"'">>), <<"RSQUO">>, <<"'">>)
      c9 == Replace(Replace(c8, <<"LSAQUO">>, <<"<">>), <<"RSAQUO">>, <<">">>)
  IN Replace(Replace(c9, <<"LAQUO">>, <<"<", "<">>), <<"RAQUO">>, <<">", ">">>)

(***************************************************************************)
(* lexer.py: TOKEN_REGEX, in order.  A pattern is a comment form, a        *)
(* keyword closed by \b, a digit run, a literal operator, a quoted string  *)
(* or a run of word characters.                                            *)
(***************************************************************************)
Pat(pat, lit, type) == [pat |-> pat, lit |-> lit, type |-> type]
Keyword(lit, type) == Pat("keyword", lit, type)
Literal(lit, type) == Pat("literal", lit, type)
Keywords ==
  << Keyword(<<"KA", "HO", "NA">>, "IF"),
     Keyword(<<"KAA", "LE", "HO", "NA">>, "ELSEIF"),
     Keyword(<<"LEE", "LAA">>, "ELSE"),
     Keyword(<<"GLOTTAL_E", "YAA", "LA">>, "WHILE"),
     Keyword(<<"LA">>, "FOR"),
     Keyword(<<"KA">>, "FROM"),
     Keyword(<<"GLOTTAL_E", "SE", "KA">>, "TO"),
     Keyword(<<"TA", "GE", "BAA", "RE">>, "FUN"),
     Keyword(<<"GLOTTAL_A", "SAA", "YE">>, "PRINT"),
     Keyword(<<"THA", "YE", "QE">>, "INPUT"),
     Keyword(<<"GLOTTAL_A", "SE", "GA", "BAA">>, "IMPORT"),
     Keyword(<<"GLOTTAL_E", "NE", "DA">>, "AS"),
     Keyword(<<"KE", "FE", "LE">>, "CLASS") >>
TOKEN_REGEX ==
  << Pat("block_comment", <<"~", "~">>, "COMMENT"),
     Pat("line_comment", <<"#">>, "COMMENT") >>
  \o Keywords
  \o << Pat("number", <<>>, "NUMBER"),
        Literal(<<"=", "=">>, "EQ"), Literal(<<"!", "=">>, "NEQ"),
        Literal(<<">", "=">>, "GTE"), Literal(<<"<", "=">>, "LTE"),
        Literal(<<">">>, "GT"), Literal(<<"<">>, "LT"),
        Literal(<<"&", "&">>, "AND"), Literal(<<"|", "|">>, "OR"),
        Literal(<<"+">>, "PLUS"), Literal(<<"-">>, "MINUS"),
        Literal(<<"*">>, "MULT"), Literal(<<"/">>, "DIV"),
        Literal(<<"=">>, "EQUAL"),
        Pat("string", <<>>, "STRING"),
        Pat("identifier", <<>>, "IDENTIFIER") >>
SINGLE_CHAR_TOKENS ==
  [c \in {".", ";", "(", ")", ",", "{", "}", "[", "]"} |->
     CASE c = "." -> "DOT" [] c = ";" -> "SEMICOLON" [] c = "(" -> "LPAREN"
       [] c = ")" -> "RPAREN" [] c = "," -> "COMMA" [] c = "{" -> "LBRACKET"
       [] c = "}" -> "RBRACKET" [] c = "[" -> "SLBRACKET" [] c = "]" -> "SRBRACKET"]

\* length of the longest prefix of s made of word characters / of digits /
\* of characters other than the newline
RECURSIVE WordRun(_)
WordRun(s) == IF Len(s) = 0 \/ ~IsWord(Head(s)) THEN 0 ELSE 1 + WordRun(Tail(s))
RECURSIVE DigitRun(_)
DigitRun(s) == IF Len(s) = 0 \/ Head(s) \notin AsciiDigits THEN 0 ELSE 1 + DigitRun(Tail(s))
RECURSIVE LineRun(_)
LineRun(s) == IF Len(s) = 0 \/ Head(s) = "\n" THEN 0 ELSE 1 + LineRun(Tail(s))
\* \b between the end of a keyword and what follows it
WordBoundaryAfter(s, n) == n = Len(s) \/ ~IsWord(s[n + 1])
\* the length of re.match(pattern, s).group(0), 0 when the pattern does not match
MatchLen(p, s) ==
  CASE p.pat = "block_comment" ->
         LET close == {j \in 3..(Len(s) - 1) : s[j] = "~" /\ s[j + 1] = "~"}
         IN IF StartsWith(s, p.lit) /\ close /= {}
            THEN (CHOOSE j \in close : \A k \in close : j <= k) + 1 ELSE 0
    [] p.pat = "line_comment" -> IF StartsWith(s, p.lit) THEN 1 + LineRun(Tail(s)) ELSE 0
    [] p.pat = "keyword" ->
         IF StartsWith(s, p.lit) /\ WordBoundaryAfter(s, Len(p.lit)) THEN Len(p.lit) ELSE 0
    [] p.pat = "number" -> DigitRun(s)
    [] p.pat = "literal" -> IF StartsWith(s, p.lit) THEN Len(p.lit) ELSE 0
    [] p.pat = "string" ->
         LET close == {j \in 2..Len(s) : s[j] = s[1]}
             first == CHOOSE j \in close : \A k \in close : j <= k
         IN IF s[1] \in {"\"", "'"} /\ close /= {}
               /\ \A k \in 2..(first - 1) : s[k] /= "\n"
            THEN first ELSE 0
    [] p.pat = "identifier" -> WordRun(s)
\* the first pattern of TOKEN_REGEX that matches s, 0 when none does
FirstMatch(s) ==
  LET hits == {k \in 1..Len(TOKEN_REGEX) : MatchLen(TOKEN_REGEX[k], s) > 0}
  IN IF hits = {} THEN 0 ELSE CHOOSE k \in hits : \A j \in hits : k <= j

(***************************************************************************)
(* lexer.py, tokenize: one pass of the scanning loop at cursor k.          *)
(***************************************************************************)
Token(type, value, ln, cl) ==
  [type |-> type, value |-> value, none |-> FALSE, line |-> ln, col |-> cl]
EOFToken(ln, cl) == [type |-> "EOF", value |-> <<>>, none |-> TRUE, line |-> ln, col |-> cl]
LexerError(ch, ln, cl) == [kind |-> "LexerError", ch |-> ch, line |-> ln, col |-> cl]
Newlines(text) == Cardinality({k \in 1..Len(text) : text[k] = "\n"})
\* len(text.split('\n')[-1])
LastLineLen(text) ==
  LET nl == {k \in 1..Len(text) : text[k] = "\n"}
  IN IF nl = {} THEN Len(text) ELSE Len(text) - (CHOOSE k \in nl : \A j \in nl : j <= k)
Advance(k, ln, cl, text, emit) ==
  [i |-> k + Len(text),
   line |-> ln + Newlines(text),
   col |-> IF Newlines(text) > 0 THEN LastLineLen(text) + 1 ELSE cl + Len(text),
   emit |-> emit, err |-> NoErr]
Scan(c, k, ln, cl) ==
  LET ch == c[k + 1]
      substring == Drop(c, k)
      m == FirstMatch(substring)
  IN IF IsSpace(ch)
     THEN [i |-> k + 1, line |-> IF ch = "\n" THEN ln + 1 ELSE ln,
           col |-> IF ch = "\n" THEN 1 ELSE cl + 1, emit |-> <<>>, err |-> NoErr]
     ELSE IF m > 0
     THEN LET type == TOKEN_REGEX[m].type
              text == SubSeq(substring, 1, MatchLen(TOKEN_REGEX[m], substring))
          IN Advance(k, ln, cl, text,
                     IF type = "COMMENT" THEN <<>>
                     ELSE IF type = "STRING"
                     THEN <<Token(type, SubSeq(text, 2, Len(text) - 1), ln, cl)>>
                     ELSE <<Token(type, text, ln, cl)>>)
     ELSE IF ch \in DOMAIN SINGLE_CHAR_TOKENS
     THEN [i |-> k + 1, line |-> ln, col |-> cl + 1,
           emit |-> <<Token(SINGLE_CHAR_TOKENS[ch], <<ch>>, ln, cl)>>, err |-> NoErr]
     ELSE [i |-> k, line |-> ln, col |-> cl, emit |-> <<>>, err |-> LexerError(ch, ln, cl)]

(***************************************************************************)
(* The texts the front end is run on: every text of at most MaxSrcLen      *)
(* characters of Alphabet, every keyword followed by at most MaxSuffix     *)
(* word characters, and the for-loop statements of the parser's scenario.  *)
(***************************************************************************)
Texts(chars, n) == UNION {[1..m -> chars] : m \in 0..n}
Alphabet ==
  {"LA", "KA", "GLOTTAL_E", "NAA", "a", "1", " ", "\n", "=", "\"", "RAQUO", "SHY", "ACUTE"}
SuffixChars == {"x", "1", "_", "HO", "NA", "GLOTTAL_E", "NAA"}
KeywordSources ==
  {Keywords[k].lit \o w : k \in 1..Len(Keywords), w \in Texts(SuffixChars, MaxSuffix)}
ForLoopHead(to) ==
  <<"LA", " ", "(", "i", ",", " ", "KA", " ", "0", " ">> \o to \o <<"5", ")">>
StatementSources ==
  { ForLoopHead(<<>>), ForLoopHead(<<"GLOTTAL_E", "SE", "KA", " ">>),
    ForLoopHead(<<"\n">>), <<"LA", "(", "#", "x", "\n", ",">>,
    <<"~", "~", "\n", "~", "~", "LA", " ", "'", "x", "'">>, <<"~", "~", "x">>,
    <<"\t", "x", "WA", "YE", "ME", "\t", "y">>, <<"LAQUO", "x", "NBSP", "y">>,
    <<"LSAQUO", "x", "ETHIOPIC_FULL_STOP", "#", "y", "\n", "LDQUO", "x", "RDQUO">> }
Sources == Texts(Alphabet, MaxSrcLen) \cup KeywordSources \cup StatementSources

(***************************************************************************)
(* The front end as a state machine: tokenize, then a parser that calls    *)
(* eat with the token kinds of parse_for_loop.                             *)
(***************************************************************************)
InterpIdle ==
  /\ prog = <<>> /\ stdin = <<>> /\ pc = 1
  /\ memory = <<>> /\ functions = <<>> /\ modules = <<>> /\ classes = <<>>
  /\ heap = <<>> /\ stdout = <<>> /\ err = NoErr /\ report = "none" /\ xlog = <<>>
InitFront ==
  /\ InterpIdle
  /\ src \in Sources
  /\ phase = "source"
  /\ code = <<>> /\ i = 0 /\ line = 1 /\ col = 1 /\ tokens = <<>> /\ lexerr = NoErr
  /\ pos = 0 /\ pline = 0 /\ pcol = 0 /\ perr = NoErr

\* tokenize, up to the loop
StartLex ==
  /\ phase = "source"
  /\ code' = normalize_code(src)
  /\ i' = 0 /\ line' = 1 /\ col' = 1 /\ tokens' = <<>>
  /\ phase' = "scan"
  /\ UNCHANGED <<src, lexerr, pos, pline, pcol, perr>>
  /\ UNCHANGED interpVars
\* tokenize, one pass of the loop
LexStep ==
  /\ phase = "scan" /\ i < Len(code)
  /\ LET r == Scan(code, i, line, col)
     IN /\ i' = r.i /\ line' = r.line /\ col' = r.col
        /\ tokens' = tokens \o r.emit
        /\ lexerr' = r.err
        /\ phase' = IF r.err = NoErr THEN "scan" ELSE "lexfail"
  /\ UNCHANGED <<src, code, pos, pline, pcol, perr>>
  /\ UNCHANGED interpVars
\* tokenize, after the loop
LexEnd ==
  /\ phase = "scan" /\ i = Len(code)
  /\ tokens' = Append(tokens, EOFToken(line, col))
  /\ phase' = "lexed"
  /\ UNCHANGED <<src, code, i, line, col, lexerr, pos, pline, pcol, perr>>
  /\ UNCHANGED interpVars

\* ParserBase.__init__; 0 stands for the None of line and col
NewParser ==
  /\ phase = "lexed"
  /\ pos' = 0 /\ pline' = 0 /\ pcol' = 0
  /\ phase' = "parse"
  /\ UNCHANGED <<src, code, i, line, col, tokens, lexerr, perr>>
  /\ UNCHANGED interpVars
\* the raw token eat reads: the token at pos, or a tuple of None
Raw ==
  IF pos < Len(tokens) THEN tokens[pos + 1]
  ELSE [type |-> "None", value |-> <<>>, none |-> TRUE, line |-> 0, col |-> 0]
\* error.py: the parser's current() has no position, so the location is the
\* parser's own line and col
unexpected_token(expected) ==
  [kind |-> "ParseError", expected |-> expected,
   found |-> IF Raw.type = "None" THEN "<EOF>" ELSE Raw.type,
   value |-> Raw.value, none |-> Raw.none,
   line |-> pline, col |-> pcol]
EatKinds ==
  {"FOR", "LPAREN", "IDENTIFIER", "COMMA", "FROM", "NUMBER", "TO", "RPAREN", "LBRACKET"}
eat(token_type) ==
  /\ phase = "parse"
  /\ IF Raw.type = token_type
     THEN /\ pline' = Raw.line /\ pcol' = Raw.col
          /\ pos' = pos + 1
          /\ UNCHANGED <<perr, phase>>
     ELSE /\ perr' = unexpected_token(token_type)
          /\ phase' = "parsefail"
          /\ UNCHANGED <<pos, pline, pcol>>
  /\ UNCHANGED <<src, code, i, line, col, tokens, lexerr>>
  /\ UNCHANGED interpVars
Parse == \E token_type \in EatKinds : eat(token_type)

NextFront == StartLex \/ LexStep \/ LexEnd \/ NewParser \/ Parse
SpecFront == InitFront /\ [][NextFront]_vars

\* C9: whenever eat finds a token of another kind than the expected one, the
\* ParseError it raises reports the expected kind, the kind and the literal
\* of the token found, and the line and column of that token; the parser
\* does not advance.
C9_ParseErrorLocation ==
  [][ \A token_type \in EatKinds :
        (phase = "parse" /\ Raw.type /= token_type /\ perr'.kind = "ParseError"
           /\ perr'.expected = token_type)
          => /\ perr'.found = Raw.type
             /\ perr'.value = Raw.value /\ perr'.none = Raw.none
             /\ perr'.line = Raw.line
             /\ perr'.col = Raw.col
             /\ pos' = pos ]_vars

\* the text is a keyword followed by word characters only
KeywordPrefixed(k) ==
  /\ StartsWith(src, Keywords[k].lit)
  /\ \A j \in 1..Len(src) : IsWord(src[j])
\* C10: tokenize(k + w), k a keyword and w a non-empty text of word
\* characters, is one IDENTIFIER token with the literal k + w, then EOF;
\* tokenize(k) is the keyword's token, then EOF.
C10_KeywordBoundary ==
  phase \in {"lexed", "lexfail"} =>
    \A k \in 1..Len(Keywords) :
      KeywordPrefixed(k) =>
        /\ phase = "lexed"
        /\ Len(tokens) = 2
        /\ tokens[2].type = "EOF"
        /\ tokens[1].value = src
        /\ tokens[1].type = IF Len(src) = Len(Keywords[k].lit) THEN Keywords[k].type
                            ELSE "IDENTIFIER"

(***************************************************************************)
(* Where a character of the normalized text comes from: normalize_code     *)
(* carried out on characters tagged with their index in the source text.   *)
(* The characters a rewriting step puts in take the index of the first     *)
(* character they replace.                                                 *)
(***************************************************************************)
Tagged(text) == [k \in 1..Len(text) |-> [ch |-> text[k], at |-> k]]
Chars(ts) == [k \in 1..Len(ts) |-> ts[k].ch]
Retag(new, at) == [k \in 1..Len(new) |-> [ch |-> new[k], at |-> at]]
RECURSIVE ReplaceTagged(_, _, _)
ReplaceTagged(ts, old, new) ==
  IF Len(ts) = 0 THEN <<>>
  ELSE IF StartsWith(Chars(ts), old)
  THEN Retag(new, ts[1].at) \o ReplaceTagged(Drop(ts, Len(old)), old, new)
  ELSE <<Head(ts)>> \o ReplaceTagged(Tail(ts), old, new)
NormalizeTagged(text) ==
  LET r(ts, old, new) == ReplaceTagged(ts, old, new)
      c0 == r(r(Tagged(text), <<"a", "ACUTE">>, <<"A_ACUTE">>), <<"NBSP">>, <<" ">>)
      c1 == r(c0, <<"SHY">>, <<>>)
      c2 == r(c1, <<"ETHIOPIC_FULL_STOP">>, <<";">>)
      c3 == r(c2, <<"ETHIOPIC_COMMA">>, <<",">>)
      c4 == r(c3, <<"ETHIOPIC_WORDSPACE">>, <<".">>)
      c5 == r(c4, <<"GLOTTAL_E", "NAA">>, <<"&", "&">>)
      c6 == r(c5, <<"WA", "YE", "ME">>, <<"|", "|">>)
      c7 == r(r(c6, <<"LDQUO">>, <<"\"">>), <<"RDQUO">>, <<"\"">>)
      c8 == r(r(c7, <<"LSQUO">>, <<"'">>), <<"RSQUO">>, <<"'">>)
      c9 == r(r(c8, <<"LSAQUO">>, <<"<">>), <<"RSAQUO">>, <<">">>)
  IN r(r(c9, <<"LAQUO">>, <<"<", "<">>), <<"RAQUO">>, <<">", ">">>)
\* the tagged text spells the text the lexer scans
OriginAgrees == phase \in {"scan", "lexed", "lexfail"} => Chars(NormalizeTagged(src)) = code
\* 1-based line and column of the character at index `at` of the source
SrcLine(at) == 1 + Cardinality({k \in 1..(at - 1) : src[k] = "\n"})
SrcCol(at) ==
  LET nl == {k \in 1..(at - 1) : src[k] = "\n"}
  IN IF nl = {} THEN at ELSE at - (CHOOSE k \in nl : \A j \in nl : j <= k)

\* C11: each token tokenize emits carries the 1-based line and column, in
\* the source text, of the first character of the token's span; the EOF
\* token carries the line and column the scan has reached.
C11_TokenPositions ==
  [][ (phase = "scan" /\ Len(tokens') = Len(tokens) + 1) =>
        LET t == tokens'[Len(tokens')]
        IN IF t.type = "EOF" THEN t.line = line /\ t.col = col
           ELSE /\ t.line = SrcLine(NormalizeTagged(src)[i + 1].at)
                /\ t.col = SrcCol(NormalizeTagged(src)[i + 1].at) ]_vars

(***************************************************************************)
(* tokenize as a function of the text: the scanning loop run to its end.   *)
(***************************************************************************)
RECURSIVE LexLoop(_, _, _, _, _)
LexLoop(c, k, ln, cl, toks) ==
  IF k >= Len(c) THEN [tokens |-> Append(toks, EOFToken(ln, cl)), err |-> NoErr]
  ELSE LET r == Scan(c, k, ln, cl)
       IN IF r.err /= NoErr THEN [tokens |-> <<>>, err |-> r.err]
          ELSE LexLoop(c, r.i, r.line, r.col, toks \o r.emit)
tokenize(text) == LexLoop(normalize_code(text), 0, 1, 1, <<>>)
\* what the scan of src has returned or raised
Lexed ==
  IF phase = "lexfail" THEN [tokens |-> <<>>, err |-> lexerr]
  ELSE [tokens |-> tokens, err |-> NoErr]
LexDone == phase \in {"lexed", "lexfail"}
TokenizeAgrees == LexDone => tokenize(src) = Lexed

\* C12: tokenize(normalize_code(s)) is tokenize(s): the same tokens, or the
\* same LexerError.
C12_NormalizeIdempotent ==
  LexDone => tokenize(normalize_code(src)) = Lexed

(***************************************************************************)
(* BuiltinFunction.call.                                                   *)
(***************************************************************************)
BuiltinCalls == {k \in Ev : xlog[k].op = "call"}
\* the call that did not return: the statement stopped inside it
Escaped(k) == \A j \in Ev : j > k => xlog[j].op = "fn"
\* C13: BuiltinFunction.call returns a value or raises InterpreterError; a wrong
\* number of arguments for a fixed arity raises it before the wrapped function
\* is invoked; whatever the wrapped function raises leaves as InterpreterError.
C13_BuiltinCall ==
  \A k \in BuiltinCalls :
    IF WrongArity(xlog[k].callee, xlog[k].nargs)
    THEN /\ k = Len(xlog)
         /\ err = InterpreterError("wrong_number_of_arguments", "", 0, 0)
    ELSE /\ k < Len(xlog) /\ xlog[k + 1].op = "fn"
         /\ IF k + 1 = Len(xlog) THEN err.kind = "InterpreterError"
            ELSE xlog[k + 2].op = "returned"
\* the wrapped function raised a host exception and call() replaced it
C13_Witness ==
  /\ \E k \in BuiltinCalls : k + 1 = Len(xlog) /\ xlog[k + 1].op = "fn"
  /\ err = InterpreterError("runtime_error_in_builtin", "", 0, 0)
C13_WitnessArity ==
  \E k \in BuiltinCalls : k = Len(xlog) /\ WrongArity(xlog[k].callee, xlog[k].nargs)
                           /\ xlog[k].callee.name = "CHEMIR"
C13_WitnessReturn ==
  \E k \in BuiltinCalls : k + 2 <= Len(xlog) /\ xlog[k + 2].op = "returned"
                           /\ xlog[k].callee.name = "max" /\ xlog[k].nargs = 2

(***************************************************************************)
(* The errors execute() raises by its own tests.                           *)
(***************************************************************************)
StatementKinds ==
  {"Assign", "ListAssign", "AssignListElement", "Print", "Input", "Conditionals",
   "WhileLoop", "ForLoop", "Functions", "FunctionCall", "ListAccessPos", "BinOp",
   "Variable", "Number", "String", "ImportStatement"}
\* the statements execute() had entered and not left when the run stopped
OpenStatements ==
  {p \in Ev : xlog[p].op = "execute" /\ ~\E q \in Ev : Closes(p, q)}
Innermost == CHOOSE p \in OpenStatements : \A q \in OpenStatements : q <= p
\* the values computed directly by the statement entered at p
ValuesOf(p) ==
  {q \in Ev : q > p /\ xlog[q].op = "value" /\ xlog[q].d = xlog[p].d + 1}
\* execute() evaluated index and value and found the list name unbound
UndefinedListDetected(p) ==
  /\ xlog[p].node.kind = "AssignListElement"
  /\ Cardinality(ValuesOf(p)) = 2
  /\ Len(xlog) \in ValuesOf(p)
  /\ xlog[p].node.list_access.name \notin DOMAIN memory
\* execute() found the function and stopped before evaluating an argument
ArityDetected(p) == xlog[p].node.kind = "FunctionCall" /\ p = Len(xlog)
UnknownShapeDetected(p) == xlog[p].node.kind \notin StatementKinds
ExecutorDetected ==
  /\ err /= NoErr
  /\ OpenStatements /= {}
  /\ \/ UndefinedListDetected(Innermost)
     \/ ArityDetected(Innermost)
     \/ UnknownShapeDetected(Innermost)
\* C14: what execute() detects itself (element assignment to an undefined list,
\* a statement-position call with a wrong argument count, a statement of unknown
\* shape) is an InterpreterError, and the driver reports it as a user error.
C14_ExecutorErrors ==
  ExecutorDetected => (err.kind = "InterpreterError" /\ report /= "internal")
\* the trace finds exactly the errors execute() raises itself
ExecutorDetectedAgrees == ExecutorDetected <=> (err /= NoErr /\ err.kind = "Exception")

(***************************************************************************)
(* Definitions in statement position.                                      *)
(***************************************************************************)
\* execute() entered no statement but the definition itself
NoBodyExecuted(log) == \A k \in 2..Len(log) : log[k].op /= "execute"
Registers(before, after, stmt) == MapEq(after, Put(before, stmt.name, stmt))
FunctionDefRegisters ==
  [][ (Running /\ prog[pc].kind = "Functions")
      => ( /\ err' = NoErr
           /\ Registers(functions, functions', prog[pc])
           /\ MapEq(classes', classes) /\ MapEq(memory', memory)
           /\ stdout' = stdout /\ NoBodyExecuted(xlog') ) ]_vars
\* C15: executing a function definition registers it under its name in the
\* functions mapping, executing a class definition registers it in the classes
\* mapping; the variable mapping is unchanged and no body statement is executed.
C15_Definitions ==
  [][ (Running /\ prog[pc].kind \in {"Functions", "ClassDef"})
      => ( /\ err' = NoErr
           /\ IF prog[pc].kind = "Functions"
              THEN Registers(functions, functions', prog[pc]) /\ MapEq(classes', classes)
              ELSE Registers(classes, classes', prog[pc]) /\ MapEq(functions', functions)
           /\ MapEq(memory', memory)
           /\ stdout' = stdout /\ NoBodyExecuted(xlog') ) ]_vars
\* no run ever has a class registered
ClassesEmpty == DOMAIN classes = {}

(***************************************************************************)
(* A call in statement position: where execute() finds the function.       *)
(***************************************************************************)
PlainCall(s) == s.kind = "FunctionCall" /\ s.access.kind = "None"
\* the function definitions the imported modules export under a name
Exported(name) ==
  {modules[k].content[name].def :
     k \in {j \in 1..Len(modules) : /\ name \in DOMAIN modules[j].content
                                     /\ modules[j].content[name].t = "fn"}}
\* the definitions a statement-position call of the name may run
Candidates(name) ==
  IF name \in DOMAIN functions THEN {functions[name]} ELSE Exported(name)
\* execute() ran the body of func, or refused the argument count of func
RanAs(s, func, log, e) ==
  IF Len(s.args) /= Len(func.params)
  THEN /\ Len(log) = 1
       /\ e /= NoErr /\ e.tag = "arity" /\ e.a = Len(func.params)
  ELSE \E k \in 2..Len(log) :
         /\ log[k].op = "swap" /\ log[k].d = 1
         /\ log[k].fn = func.name /\ log[k].params = func.params
         /\ k < Len(log)
         /\ log[k + 1] = [op |-> "execute", node |-> func.body[1], d |-> 1]
\* execute() handed the whole call to evaluate()
FellBack(s, log) ==
  Len(log) >= 2 /\ log[2] = [op |-> "evaluate", node |-> s, d |-> 1]
\* C16: a statement-position call of a plain name runs the local function of
\* that name if one is registered, otherwise a function of that name exported
\* by an imported module, and only otherwise is evaluated as an expression.
C16_StatementCallOrder ==
  [][ (Running /\ PlainCall(prog[pc]))
      => IF Candidates(prog[pc].name) = {} THEN FellBack(prog[pc], xlog')
         ELSE /\ ~FellBack(prog[pc], xlog')
              /\ \E func \in Candidates(prog[pc].name) : RanAs(prog[pc], func, xlog', err') ]_vars
\* a local two() ran although an imported module exports two() as well
C16_Witness ==
  /\ Ran /\ PlainCall(LastStmt) /\ LastStmt.name = "two"
  /\ "two" \in DOMAIN functions /\ Exported("two") /= {}
  /\ functions["two"] \notin Exported("two")
  /\ err = NoErr /\ RanAs(LastStmt, functions["two"], xlog, err)
\* the imported function ran although a variable, or a built-in, has its name
C16_WitnessVariable ==
  /\ Ran /\ PlainCall(LastStmt) /\ LastStmt.name = "two"
  /\ "two" \notin DOMAIN functions /\ "two" \in DOMAIN memory
  /\ err = NoErr /\ \E func \in Exported("two") : RanAs(LastStmt, func, xlog, err)
C16_WitnessBuiltin ==
  /\ Ran /\ PlainCall(LastStmt) /\ LastStmt.name = "WEDEQUTIR"
  /\ "WEDEQUTIR" \notin DOMAIN functions
  /\ err = NoErr /\ \E func \in Exported("WEDEQUTIR") : RanAs(LastStmt, func, xlog, err)
C16_WitnessFallback ==
  /\ Ran /\ PlainCall(LastStmt) /\ LastStmt.name = "WEDEQUTIR"
  /\ Candidates("WEDEQUTIR") = {} /\ err = NoErr /\ FellBack(LastStmt, xlog)

(***************************************************************************)
(* evaluate, ModuleAccess, as a function of the environment.  The classes  *)
(* mapping is read by evaluate() and written by no statement, so the runs  *)
(* below start from an environment whose classes the embedding program     *)
(* has set; the modules are installed by an import with an alias.          *)
(***************************************************************************)
ClassBodies ==
  { <<Assign("cv", Number(1)),
      Functions("get", <<>>, <<PrintStmt(Txt("k"))>>),
      Functions("get", <<"p">>, <<PrintStmt(Txt("q"))>>)>>,
    <<Functions("two", <<>>, <<PrintStmt(Txt("c"))>>),
      Functions("abs", <<>>, <<PrintStmt(Txt("c"))>>)>> }
AccessNames == {"HISAB", "lib", "K", "WEDEQUTIR"}
ClassTables ==
  {<<>>} \cup { Put(<<>>, c, ClassDef(c, body)) : c \in AccessNames, body \in ClassBodies }
AccessPrograms ==
  { << ImportStatement(<<"lib", "aby">>, alias),
       Assign("r", ModuleAccess(m, member)) >> :
      alias \in {"", "HISAB", "K", "WEDEQUTIR"}, m \in AccessNames,
      member \in {"abs", "two", "get", "cv", "shared", "nope"} }
InitAccess ==
  /\ prog \in AccessPrograms
  /\ classes \in ClassTables
  /\ stdin = <<>>
  /\ pc = 1
  /\ memory = <<>> /\ functions = <<>> /\ modules = <<>>
  /\ heap = <<>> /\ stdout = <<>> /\ err = NoErr /\ report = "none"
  /\ xlog = <<>>
  /\ FrontIdle
NextAccess == run \/ ReportUser
SpecAccess == InitAccess /\ [][NextAccess]_vars

IsAccess(s) == s.kind = "Assign" /\ s.value.kind = "ModuleAccess"
\* the error names the module or class, and the member where one is missing
NamesModule(e, node) == e.kind = "InterpreterError" /\ e.name = node.module_name
NamesMember(e, node) ==
  /\ NamesModule(e, node)
  /\ "member" \in DOMAIN e /\ e.member = node.member_name
FunctionsNamed(body, member) ==
  {k \in 1..Len(body) : body[k].kind = "Functions" /\ body[k].name = member}
First(S) == CHOOSE k \in S : \A j \in S : k <= j
\* the level that answers the access: the first whose name matches
Level(node) ==
  IF node.module_name \in BuiltinNamespaces THEN "builtins"
  ELSE IF \E k \in 1..Len(modules) : modules[k].name = node.module_name THEN "modules"
  ELSE IF node.module_name \in DOMAIN classes THEN "classes"
  ELSE "none"
Yielded(v, e, mem) == e = NoErr /\ "r" \in DOMAIN mem /\ mem["r"] = v
\* what the access yields at the level that answers it; a name no level knows
\* is an InterpreterError naming it, and the member too where withMember holds
Answered(node, withMember) ==
  LET m == node.module_name
  IN CASE Level(node) = "builtins" ->
            IF node.member_name \in BuiltinMembers(m)
            THEN Yielded(BuiltinV(m, node.member_name), err', memory')
            ELSE NamesMember(err', node)
       [] Level(node) = "modules" ->
            LET content == modules[CHOOSE k \in 1..Len(modules) : modules[k].name = m].content
            IN IF node.member_name \in DOMAIN content
               THEN Yielded(content[node.member_name], err', memory')
               ELSE NamesMember(err', node)
       [] Level(node) = "classes" ->
            LET body == classes[m].body
            IN IF FunctionsNamed(body, node.member_name) /= {}
               THEN Yielded(FnV(body[First(FunctionsNamed(body, node.member_name))]),
                            err', memory')
               ELSE NamesMember(err', node)
       [] OTHER -> IF withMember THEN NamesMember(err', node) ELSE NamesModule(err', node)
\* C17: ModuleAccess asks the built-in registry for a built-in namespace, then
\* the imported modules, then the local classes, and answers at the first
\* level that knows the name: with the member, or with an InterpreterError
\* naming the module or class and the member that is missing; a name that no
\* level knows fails with an InterpreterError naming module or class and member.
C17_ModuleAccess ==
  [][ (Running /\ IsAccess(prog[pc])) => Answered(prog[pc].value, TRUE) ]_vars
\* C17, amended: as above, but the InterpreterError for a name that no level
\* knows names the module or class alone.
C17_ModuleAccessOrder ==
  [][ (Running /\ IsAccess(prog[pc])) => Answered(prog[pc].value, FALSE) ]_vars
\* a class answered although an imported module has the member under another name
C17_Witness ==
  /\ Ran /\ IsAccess(LastStmt) /\ Level(LastStmt.value) = "classes"
  /\ Len(modules) > 0 /\ LastStmt.value.member_name = "get"
  /\ err = NoErr /\ memory["r"].t = "fn" /\ Len(memory["r"].def.params) = 0
C17_WitnessShadowed ==
  /\ Ran /\ IsAccess(LastStmt) /\ Level(LastStmt.value) = "builtins"
  /\ LastStmt.value.module_name \in DOMAIN classes
  /\ \E k \in 1..Len(modules) : modules[k].name = LastStmt.value.module_name
  /\ err /= NoErr /\ NamesMember(err, LastStmt.value)
C17_WitnessModule ==
  /\ Ran /\ IsAccess(LastStmt) /\ Level(LastStmt.value) = "modules"
  /\ LastStmt.value.module_name \in DOMAIN classes
  /\ LastStmt.value.member_name = "two" /\ err = NoErr
C17_WitnessUnknown ==
  /\ Ran /\ IsAccess(LastStmt) /\ Level(LastStmt.value) = "none"
  /\ err /= NoErr /\ NamesModule(err, LastStmt.value) /\ "member" \notin DOMAIN err

(***************************************************************************)
(* Import: what execute() does with the file's top-level statements.       *)
(***************************************************************************)
Imported(s) == s.kind = "ImportStatement" /\ s.path \in FilePaths
TopLevelPrints(ast) == SelectSeq(ast, LAMBDA s : s.kind = "Print" /\ s.expr.kind = "String")
Printed(out, str) == \E j \in 1..Len(out) : out[j] = [w |-> "print", v |-> StrV(str)]
NewOutput == SubSeq(stdout', Len(stdout) + 1, Len(stdout'))
\* every import evaluates the file's assignments again and installs what it built
ImportNotCached ==
  [][ (Running /\ Imported(prog[pc]) /\ prog[pc].path = <<"aux", "aby">> /\ err' = NoErr)
      => ( /\ Len(stdin) > 0 /\ stdin' = Tail(stdin)
           /\ ModHas(modules', ModuleName(prog[pc].path, prog[pc].alias))
           /\ ModGet(modules', ModuleName(prog[pc].path, prog[pc].alias))["n"]
                = StrV(Head(stdin)) ) ]_vars
\* C18: every execution of an import reads, parses and executes the file again:
\* the file's top-level prints are written once per import, and the import
\* installs the mapping it built under the alias or the name from the path.
C18_ImportReexecutes ==
  [][ (Running /\ Imported(prog[pc]) /\ err' = NoErr)
      => ( /\ ModHas(modules', ModuleName(prog[pc].path, prog[pc].alias))
           /\ \A k \in 1..Len(TopLevelPrints(ParsedFile(prog[pc].path))) :
                Printed(NewOutput, TopLevelPrints(ParsedFile(prog[pc].path))[k].expr.str) ) ]_vars
\* the same file imported a second time, under another name
SecondImport ==
  /\ pc = 3 /\ err = NoErr /\ Imported(prog[1]) /\ Imported(prog[2])
  /\ prog[1].path = <<"aux", "aby">> /\ prog[2].path = <<"aux", "aby">>
  /\ Len(modules) = 2 /\ modules[1].content["n"] /= modules[2].content["n"]
====
